---- MODULE Spec2Model ----
(***************************************************************************)
(* Patch generation pipeline of services/doc_process (src/patch/*.py).     *)
(*                                                                         *)
(* Rasters are records [h, w, px] with px[y][x] indexed from 0, as numpy   *)
(* arrays of shape (h, w[, 3]).  A colour is a triple of channel values.   *)
(* Two specifications are defined over the same variables:                 *)
(*   Spec      one call of generate_patch, one action per pipeline step;   *)
(*   GeomSpec  the pure functions of geometry.py applied to drawn inputs.  *)
(***************************************************************************)
EXTENDS Integers, Sequences, FiniteSets, TLC

VARIABLES
    \* ---- arguments of generate_patch (pipeline.py:36-42)
    image_bytes, candidate, padding_px, mode,
    \* ---- position in generate_patch and its local variables
    pc, image_bgr, bbox_orig, bbox_padded, bbox_final, mask,
    roi, roi_mask, bg_model, filled_roi, debug_info, result_image,
    \* ---- what generate_patch hands back: the returned object, or the
    \*      exception that left the function
    result, escaped,
    \* ---- the order in which the background tests and fills were evaluated
    calls,
    \* ---- geometry.py functions applied on their own (GeomSpec)
    g_pc, g_quad, g_bbox, g_size, g_out,
    \* ---- compose.py functions applied on their own (ComposeSpec):
    \*      position, arguments, returned value
    k_pc, k_in, k_out,
    \* ---- utils/text_style.py (StyleSpec): position, arguments, returned
    \*      value or exception
    t_pc, t_in, t_out,
    \* ---- a call of estimate_text_style running beside generate_patch
    \*      (ConcSpec): position, the image buffer it is given, its other
    \*      arguments, its local variables, its outcome, the number of the
    \*      call, and the image and candidate as they were when it was made
    s_pc, s_image, s_args, s_local, s_out, s_round, s_given,
    \* ---- the HTTP handlers of api/pages.py and api/assets.py (ApiSpec):
    \*      the pages and candidates tables, the objects held by the object
    \*      storage, the settings, the last request with its response, and
    \*      for every page the candidates its last successful analysis
    \*      returned
    db_pages, db_candidates, storage_objects, a_settings, a_resp, a_last,
    \* ---- the patches and projects tables (api/pages.py, api/projects.py)
    db_patches, db_projects,
    \* ---- for every project id drawn so far, in the order of creation:
    \*      whether the project is still stored, and the page and layers of
    \*      its last successful create or update (ProjectSpec)
    p_last,
    \* ---- export_project_to_png (utils/export.py, ExportSpec): position,
    \*      arguments, index of the next layer, result_image, and the layers
    \*      drawn so far
    e_pc, e_in, e_i, e_image, e_drawn

inputVars == <<image_bytes, candidate, padding_px, mode>>
localVars == <<image_bgr, bbox_orig, bbox_padded, bbox_final, mask,
               roi, roi_mask, bg_model, filled_roi, debug_info, result_image>>
geomVars  == <<g_pc, g_quad, g_bbox, g_size, g_out>>
composeVars == <<k_pc, k_in, k_out>>
\* the variables of the specifications other than Spec and GeomSpec
styleVars == <<t_pc, t_in, t_out>>
concVars  == <<s_pc, s_image, s_args, s_local, s_out, s_round, s_given>>
exportVars == <<e_pc, e_in, e_i, e_image, e_drawn>>
tableVars == <<db_patches, db_projects, p_last>>
apiVars   == <<db_pages, db_candidates, storage_objects, a_settings, a_resp, a_last,
               tableVars, exportVars>>
extVars   == <<composeVars, styleVars, concVars, apiVars>>
vars      == <<inputVars, pc, localVars, result, escaped, calls, geomVars, extVars>>

\* Python's None
None == [none |-> TRUE]

\* no call of compose.py on its own is in progress
ComposeIdle == k_pc = "idle" /\ k_in = None /\ k_out = None
\* no call of text_style.py is in progress
StyleIdle == t_pc = "idle" /\ t_in = None /\ t_out = None
\* no call of estimate_text_style runs beside generate_patch
ConcIdle ==
    /\ s_pc = "idle" /\ s_image = None /\ s_args = None /\ s_local = None
    /\ s_out = None /\ s_round = 0 /\ s_given = None
\* no call of export_project_to_png is in progress
ExportIdle ==
    e_pc = "idle" /\ e_in = None /\ e_i = 0 /\ e_image = None /\ e_drawn = <<>>
\* no request has reached the HTTP handlers
ApiIdle ==
    /\ db_pages = {} /\ db_candidates = {} /\ storage_objects = {}
    /\ a_settings = None /\ a_resp = None /\ a_last = None
    /\ db_patches = {} /\ db_projects = {} /\ p_last = <<>>
    /\ ExportIdle
ExtIdle == ComposeIdle /\ StyleIdle /\ ConcIdle /\ ApiIdle

\* ------------------------------------------------------------------------
\* Bounds of the model
\* ------------------------------------------------------------------------
MaxPad   == 1      \* padding_px ranges over -1 .. MaxPad
MaxCoord == 1      \* quad points of GeomSpec range over -1 .. MaxCoord
MaxDim   == 3      \* image sides of GeomSpec range over 1 .. MaxDim
MaxOff   == 2      \* bbox origins of GeomSpec range over -MaxOff .. MaxDim + 1

\* ------------------------------------------------------------------------
\* Arithmetic helpers (Python built-ins)
\* ------------------------------------------------------------------------
Max(a, b) == IF a >= b THEN a ELSE b
Min(a, b) == IF a <= b THEN a ELSE b
Abs(a)    == IF a < 0 THEN -a ELSE a

RECURSIVE SumTo(_, _)
\* sum of f[i] for i in 0 .. n-1
SumTo(f, n) == IF n <= 0 THEN 0 ELSE f[n - 1] + SumTo(f, n - 1)

\* min(xs) / max(xs) of a non-empty Python list, scanned left to right
RECURSIVE ListMin(_)
ListMin(xs) ==
    IF Len(xs) = 1 THEN xs[1]
    ELSE LET m == ListMin(SubSeq(xs, 1, Len(xs) - 1))
         IN  IF xs[Len(xs)] < m THEN xs[Len(xs)] ELSE m

RECURSIVE ListMax(_)
ListMax(xs) ==
    IF Len(xs) = 1 THEN xs[1]
    ELSE LET m == ListMax(SubSeq(xs, 1, Len(xs) - 1))
         IN  IF xs[Len(xs)] > m THEN xs[Len(xs)] ELSE m

\* ------------------------------------------------------------------------
\* geometry.py
\* ------------------------------------------------------------------------
BBox(x, y, w, h) == [x |-> x, y |-> y, w |-> w, h |-> h]

\* a plausible slip: the far corner is returned in place of the extent
quad_to_bbox_corner(quad) ==
    LET xs == [i \in 1..Len(quad) |-> quad[i][1]]
        ys == [i \in 1..Len(quad) |-> quad[i][2]]
    IN  BBox(ListMin(xs), ListMin(ys), ListMax(xs), ListMax(ys))

quad_to_bbox(quad) ==
    LET xs == [i \in 1..Len(quad) |-> quad[i][1]]
        ys == [i \in 1..Len(quad) |-> quad[i][2]]
        min_x == ListMin(xs)
        max_x == ListMax(xs)
        min_y == ListMin(ys)
        max_y == ListMax(ys)
    IN  BBox(min_x, min_y, max_x - min_x, max_y - min_y)

expand_bbox(bbox, padding) ==
    BBox(bbox.x - padding, bbox.y - padding,
         bbox.w + 2 * padding, bbox.h + 2 * padding)

\* the dict handed to expand_bbox as it is after the call: lines 42-47 build
\* the result as a new dict and write nothing to the argument.  In-place
\* arithmetic (bbox["x"] -= padding, ..., return bbox) would leave the
\* expanded values in the caller's dict.
expand_bbox_in_place(bbox, padding) == expand_bbox(bbox, padding)
expand_bbox_argument(bbox, padding) == bbox

\* a plausible slip: the width is measured from the unclipped origin
clip_bbox_unclipped_origin(bbox, image_width, image_height) ==
    LET x2 == Min(image_width, bbox.x + bbox.w)
        y2 == Min(image_height, bbox.y + bbox.h)
    IN  BBox(Max(0, bbox.x), Max(0, bbox.y), x2 - bbox.x, y2 - bbox.y)

clip_bbox_to_image(bbox, image_width, image_height) ==
    LET x  == Max(0, bbox.x)
        y  == Max(0, bbox.y)
        x2 == Min(image_width, bbox.x + bbox.w)
        y2 == Min(image_height, bbox.y + bbox.h)
    IN  BBox(x, y, x2 - x, y2 - y)

\* ------------------------------------------------------------------------
\* numpy arrays
\* ------------------------------------------------------------------------
Raster(h, w, f(_, _)) ==
    [h |-> h, w |-> w, px |-> [y \in 0..(h - 1) |-> [x \in 0..(w - 1) |-> f(y, x)]]]

IsEmpty(a) == a.h = 0 \/ a.w = 0

\* Python's resolution of one bound i of a slice over an axis of length n:
\* a negative bound counts from the end, and every bound is clamped to 0..n
SliceIdx(i, n) == IF i < 0 THEN Max(i + n, 0) ELSE Min(i, n)

\* a[y:y2, x:x2]
Crop(a, y, y2, x, x2) ==
    LET ys == SliceIdx(y, a.h)
        xs == SliceIdx(x, a.w)
        nh == Max(SliceIdx(y2, a.h) - ys, 0)
        nw == Max(SliceIdx(x2, a.w) - xs, 0)
    IN  [h |-> nh, w |-> nw,
         px |-> [r \in 0..(nh - 1) |-> [c \in 0..(nw - 1) |-> a.px[ys + r][xs + c]]]]

\* a[y:y2, x:x2] = b, for b of the shape of that slice
Paste(a, y, y2, x, x2, b) ==
    LET ys == SliceIdx(y, a.h)
        xs == SliceIdx(x, a.w)
    IN  [a EXCEPT !.px =
            [r \in 0..(a.h - 1) |-> [c \in 0..(a.w - 1) |->
                IF /\ r >= ys /\ r < ys + b.h
                   /\ c >= xs /\ c < xs + b.w
                THEN b.px[r - ys][c - xs]
                ELSE a.px[r][c]]]]

\* a plausible slip: the whole fill is copied, a[:] = f
FillEverywhere(a, m, f) == [a EXCEPT !.px = f.px]

\* a[m > 0] = f[m > 0], for a, m and f of one shape
FillWhereMasked(a, m, f) ==
    [a EXCEPT !.px =
        [r \in 0..(a.h - 1) |-> [c \in 0..(a.w - 1) |->
            IF m.px[r][c] > 0 THEN f.px[r][c] ELSE a.px[r][c]]]]

\* a[m == 0]: the selected pixels in row-major order, shape (N, 3)
RECURSIVE BoolIndexUpTo(_, _, _)
BoolIndexUpTo(a, m, k) ==
    IF k = 0 THEN <<>>
    ELSE LET y    == (k - 1) \div a.w
             x    == (k - 1) % a.w
             rest == BoolIndexUpTo(a, m, k - 1)
         IN  IF m.px[y][x] = 0 THEN Append(rest, a.px[y][x]) ELSE rest

WhereUnmasked(a, m) == BoolIndexUpTo(a, m, a.h * a.w)

\* cv2.cvtColor(.., COLOR_RGB2BGR) and COLOR_BGR2RGB: the channels reversed
SwapRB(c) == <<c[3], c[2], c[1]>>
cvtColor(a) ==
    [a EXCEPT !.px = [r \in 0..(a.h - 1) |-> [c \in 0..(a.w - 1) |-> SwapRB(a.px[r][c])]]]

\* ------------------------------------------------------------------------
\* mask.py
\* ------------------------------------------------------------------------
\* cv2.fillPoly on a zero mask of image_shape = (h, w), for a quad that is an
\* axis-aligned rectangle given along its boundary: the pixels of the
\* rectangle, border included, that lie in the image
rasterize_quad(quad, h, w) ==
    LET xs == [i \in 1..Len(quad) |-> quad[i][1]]
        ys == [i \in 1..Len(quad) |-> quad[i][2]]
    IN  Raster(h, w, LAMBDA y, x:
            IF /\ x >= ListMin(xs) /\ x <= ListMax(xs)
               /\ y >= ListMin(ys) /\ y <= ListMax(ys)
            THEN 255 ELSE 0)

\* create_edge_mask: its result is not used by the pipeline; cv2.dilate and
\* cv2.erode reject an empty source
create_edge_mask_raises(m) == IsEmpty(m)

\* ------------------------------------------------------------------------
\* bg_fit.py
\* ------------------------------------------------------------------------
SolidStdThreshold == 10
GradientMaeThreshold == 15
EdgeSamples == 5

Chan(pixels, ch) == [i \in 0..(Len(pixels) - 1) |-> pixels[i + 1][ch]]
SqChan(pixels, ch) == [i \in 0..(Len(pixels) - 1) |-> pixels[i + 1][ch] * pixels[i + 1][ch]]

\* np.std(region, axis=(0, 1))[ch] < threshold, as  N*S2 - S1^2 < threshold^2 * N^2
StdBelow(pixels, ch, threshold) ==
    LET n  == Len(pixels)
        s1 == SumTo(Chan(pixels, ch), n)
        s2 == SumTo(SqChan(pixels, ch), n)
    IN  n * s2 - s1 * s1 < threshold * threshold * n * n

\* tuple(np.mean(region, axis=(0, 1)).astype(int))
MeanColor(pixels) ==
    [ch \in 1..3 |-> SumTo(Chan(pixels, ch), Len(pixels)) \div Len(pixels)]

\* region is given by its pixels: the reshape of the caller keeps their order
\* and the channel axis, and the statistics run over the other two axes
is_solid_color(pixels) ==
    IF Len(pixels) = 0 THEN [is_solid |-> FALSE, mean_color |-> None]
    ELSE IF \A ch \in 1..3 : StdBelow(pixels, ch, SolidStdThreshold)
         THEN [is_solid |-> TRUE, mean_color |-> MeanColor(pixels)]
         ELSE [is_solid |-> FALSE, mean_color |-> None]

generate_solid_fill(h, w, color) == Raster(h, w, LAMBDA y, x: color)

\* np.zeros((h, w, 3)) raises ValueError for a negative dimension
zeros_raises(h, w) == h < 0 \/ w < 0

\* a / b < c / d for a, c >= 0 and b, d > 0, without forming the products
RECURSIVE FracLess(_, _, _, _)
FracLess(a, b, c, d) ==
    LET q1 == a \div b
        q2 == c \div d
        r1 == a % b
        r2 == c % d
    IN  IF q1 # q2 THEN q1 < q2
        ELSE IF r2 = 0 THEN FALSE
        ELSE IF r1 = 0 THEN TRUE
        ELSE FracLess(d, r2, b, r1)

\* stats.linregress(arange(n), s / k) for integer sums s[0..n-1], and the
\* absolute residuals |y - (slope * x + intercept)| summed, times n * D * k:
\*   D = n*Sxx - Sx^2,  A = n*Sxy - Sx*Sy,
\*   residual_i * n * D * k = D * (n*s_i - Sy) - A * (n*i - Sx)
SumAbsResid(s, n) ==
    LET Sx  == SumTo([i \in 0..(n - 1) |-> i], n)
        Sxx == SumTo([i \in 0..(n - 1) |-> i * i], n)
        Sy  == SumTo(s, n)
        Sxy == SumTo([i \in 0..(n - 1) |-> i * s[i]], n)
        D   == n * Sxx - Sx * Sx
        A   == n * Sxy - Sx * Sy
    IN  SumTo([i \in 0..(n - 1) |-> Abs(D * (n * s[i] - Sy) - A * (n * i - Sx))], n)

LinDen(n) ==
    n * SumTo([i \in 0..(n - 1) |-> i * i], n)
      - SumTo([i \in 0..(n - 1) |-> i], n) * SumTo([i \in 0..(n - 1) |-> i], n)

ColSums(region, ch) ==
    [x \in 0..(region.w - 1) |->
        SumTo([y \in 0..(region.h - 1) |-> region.px[y][x][ch]], region.h)]

RowSums(region, ch) ==
    [y \in 0..(region.h - 1) |->
        SumTo([x \in 0..(region.w - 1) |-> region.px[y][x][ch]], region.w)]

\* A mean absolute error is the rational num / den; with a single column
\* (row) the regression has no slope and the error is NaN, which compares
\* false with everything.
fit_horizontal_gradient(region) ==
    LET n == region.w
    IN  IF n < 2 THEN [nan |-> TRUE, num |-> 0, den |-> 1]
        ELSE [nan |-> FALSE,
              num |-> SumTo([c \in 0..2 |-> SumAbsResid(ColSums(region, c + 1), n)], 3),
              den |-> 3 * n * n * LinDen(n) * region.h]

fit_vertical_gradient(region) ==
    LET n == region.h
    IN  IF n < 2 THEN [nan |-> TRUE, num |-> 0, den |-> 1]
        ELSE [nan |-> FALSE,
              num |-> SumTo([c \in 0..2 |-> SumAbsResid(RowSums(region, c + 1), n)], 3),
              den |-> 3 * n * n * LinDen(n) * region.w]

MaeLess(m1, m2) ==
    /\ ~m1.nan /\ ~m2.nan
    /\ FracLess(m1.num, m1.den, m2.num, m2.den)
MaeEqual(m1, m2) ==
    /\ ~m1.nan /\ ~m2.nan
    /\ ~FracLess(m1.num, m1.den, m2.num, m2.den)
    /\ ~FracLess(m2.num, m2.den, m1.num, m1.den)
MaeBelow(m, t) == ~m.nan /\ m.num < t * m.den

\* tuple(np.mean(region[y0:y1, x0:x1, :], axis=(0, 1)).astype(int))
BlockMean(region, y0, y1, x0, x1) ==
    [ch \in 1..3 |->
        SumTo([r \in 0..(y1 - y0 - 1) |->
                  SumTo([c \in 0..(x1 - x0 - 1) |-> region.px[y0 + r][x0 + c][ch]],
                        x1 - x0)],
              y1 - y0)
        \div ((y1 - y0) * (x1 - x0))]

HorizontalParams(region, mae) ==
    [direction   |-> "horizontal",
     start_color |-> BlockMean(region, 0, region.h, 0, Min(EdgeSamples, region.w)),
     end_color   |-> BlockMean(region, 0, region.h,
                               Max(region.w - EdgeSamples, 0), region.w),
     mae         |-> <<mae.num, mae.den>>]

VerticalParams(region, mae) ==
    [direction   |-> "vertical",
     start_color |-> BlockMean(region, 0, Min(EdgeSamples, region.h), 0, region.w),
     end_color   |-> BlockMean(region, Max(region.h - EdgeSamples, 0), region.h,
                               0, region.w),
     mae         |-> <<mae.num, mae.den>>]

\* The results fit_linear_gradient can return for region.  The direction test
\* h_mae < v_mae compares two floating-point sums; where the two errors are
\* equal as rationals the rounding of the sums decides it, so both
\* directions are possible outcomes there.
fit_linear_gradient(region) ==
    IF IsEmpty(region) THEN {[is_gradient |-> FALSE, params |-> None]}
    ELSE
    LET h_mae == fit_horizontal_gradient(region)
        v_mae == fit_vertical_gradient(region)
        hres  == [is_gradient |-> TRUE, params |-> HorizontalParams(region, h_mae)]
        vres  == [is_gradient |-> TRUE, params |-> VerticalParams(region, v_mae)]
        none  == [is_gradient |-> FALSE, params |-> None]
        tie   == MaeEqual(h_mae, v_mae)
    IN  (IF (MaeLess(h_mae, v_mae) \/ tie) /\ MaeBelow(h_mae, GradientMaeThreshold)
         THEN {hres} ELSE {})
        \cup
        (IF ~MaeLess(h_mae, v_mae) /\ MaeBelow(v_mae, GradientMaeThreshold)
         THEN {vres} ELSE {})
        \cup
        (IF ~(MaeLess(h_mae, v_mae) /\ MaeBelow(h_mae, GradientMaeThreshold))
            /\ ~MaeBelow(v_mae, GradientMaeThreshold)
         THEN {none} ELSE {})

\* color = start * (1 - t) + end * t with t = i / max(n - 1, 1), cut to uint8
Lerp(start, end, i, n) ==
    LET d == Max(n - 1, 1)
    IN  [ch \in 1..3 |-> (start[ch] * (d - i) + end[ch] * i) \div d]

generate_gradient_fill(h, w, params) ==
    IF params.direction = "horizontal"
    THEN Raster(h, w, LAMBDA y, x: Lerp(params.start_color, params.end_color, x, w))
    ELSE Raster(h, w, LAMBDA y, x: Lerp(params.start_color, params.end_color, y, h))

\* ------------------------------------------------------------------------
\* inpaint.py
\* ------------------------------------------------------------------------
\* The colours cv2.inpaint may synthesise are not computed here: one call
\* writes one of these into the pixels it repairs.
InpaintPalette == {<<0, 0, 0>>, <<128, 128, 128>>}

\* cv2.inpaint(image, mask, radius, flags): pixels with mask == 0 are kept,
\* the others are synthesised (here: colour c)
inpaint_telea(image, m, c) ==
    [image EXCEPT !.px =
        [r \in 0..(image.h - 1) |-> [k \in 0..(image.w - 1) |->
            IF m.px[r][k] # 0 THEN c ELSE image.px[r][k]]]]

inpaint_auto(image, m, method, c) == inpaint_telea(image, m, c)

\* ------------------------------------------------------------------------
\* compose.py
\* ------------------------------------------------------------------------
\* cv2.GaussianBlur(alpha, (0, 0), 1.5) on a uint8 mask: sigma 1.5 gives an
\* 11 x 11 kernel.  A pixel whose window holds one value keeps it; the value
\* of a pixel with a mixed window lies between and is written 128 here.
GaussianBlur(a) ==
    [a EXCEPT !.px =
        [r \in 0..(a.h - 1) |-> [c \in 0..(a.w - 1) |->
            LET win == {a.px[r2][c2] : r2 \in Max(r - 5, 0)..Min(r + 5, a.h - 1),
                                        c2 \in Max(c - 5, 0)..Min(c + 5, a.w - 1)}
            IN  IF Cardinality(win) = 1 THEN a.px[r][c] ELSE 128]]]

\* np.dstack([rgb, alpha]) saved by PIL as PNG: a lossless container
EncodePNG(rgb, alpha) ==
    [format |-> "PNG", h |-> rgb.h, w |-> rgb.w,
     rgba |-> [r \in 0..(rgb.h - 1) |-> [c \in 0..(rgb.w - 1) |->
                  <<rgb.px[r][c][1], rgb.px[r][c][2], rgb.px[r][c][3], alpha.px[r][c]>>]]]

\* a plausible slip: the alpha is blurred whatever feather says
create_transparent_patch_feathered(background, m, bbox, feather) ==
    LET x       == Max(0, bbox.x)
        y       == Max(0, bbox.y)
        x2      == Min(background.w, x + bbox.w)
        y2      == Min(background.h, y + bbox.h)
        bg_crop == Crop(background, y, y2, x, x2)
        m_crop  == Crop(m, y, y2, x, x2)
    IN  IF IsEmpty(bg_crop)
        THEN [exc |-> "cv2.error", bytes |-> None]
        ELSE [exc |-> "none", bytes |-> EncodePNG(cvtColor(bg_crop), GaussianBlur(m_crop))]

\* [exc |-> class of the exception raised, or "none"; bytes |-> the PNG]
create_transparent_patch(background, m, bbox, feather) ==
    LET x       == Max(0, bbox.x)
        y       == Max(0, bbox.y)
        x2      == Min(background.w, x + bbox.w)
        y2      == Min(background.h, y + bbox.h)
        bg_crop == Crop(background, y, y2, x, x2)
        m_crop  == Crop(m, y, y2, x, x2)
        alpha   == IF feather THEN GaussianBlur(m_crop) ELSE m_crop
    IN  IF IsEmpty(bg_crop)
        THEN [exc |-> "cv2.error", bytes |-> None]
        ELSE [exc |-> "none", bytes |-> EncodePNG(cvtColor(bg_crop), alpha)]

\* ------------------------------------------------------------------------
\* pipeline.py: PatchGenerationResult and the arguments of generate_patch
\* ------------------------------------------------------------------------
\* a plausible slip: self.error = error or "", an error string on every result
PatchGenerationResultErrorDefault(success, patch_bytes, bbox, dbg, error) ==
    [success |-> success, patch_bytes |-> patch_bytes, bbox |-> bbox,
     debug_info |-> dbg, error |-> IF error = None THEN [str |-> ""] ELSE error]

\* debug_info or {} keeps the dict it is given
PatchGenerationResult(success, patch_bytes, bbox, dbg, error) ==
    [success |-> success, patch_bytes |-> patch_bytes, bbox |-> bbox,
     debug_info |-> dbg, error |-> error]

\* str(e)
Str(e) == [str |-> e]

\* the exception classes the steps of the pipeline raise; all derive from
\* Exception
ExceptionClasses ==
    {"UnidentifiedImageError", "KeyError", "TypeError", "ValueError", "cv2.error"}

\* a plausible slip: a handler for the errors of the numeric steps only
except_ValueError(e) == e \in {"ValueError", "cv2.error"}

\* except Exception as e
except_Exception(e) == e \in ExceptionClasses

MinBgRegionSize == 100

Modes == {"auto", "solid", "gradient", "inpaint", "other"}

\* RGB pixel of the test images, as PIL decodes them
ImagePixel(pattern, y, x) ==
    CASE pattern = "white" -> <<255, 255, 255>>
      [] pattern = "text"  -> IF x \in 2..3 /\ y \in 1..2
                              THEN <<0, 0, 0>> ELSE <<240, 200, 100>>
      [] pattern = "grain" -> IF (x + y) % 2 = 0
                              THEN <<100, 150, 200>> ELSE <<107, 150, 200>>
      [] pattern = "hgrad" -> <<30 * x, 20 * x, 10 * x>>
      [] pattern = "vgrad" -> <<10 * y, 20 * y, 40 * y>>
      [] pattern = "plaid" -> IF x % 2 = 0 /\ y % 2 = 0
                              THEN <<255, 255, 255>> ELSE <<0, 0, 0>>

ImageInputs ==
    {[kind |-> "garbage"]}
    \cup {[kind |-> "image", pattern |-> p, w |-> 7, h |-> 6] :
            p \in {"white", "text", "grain", "hgrad", "vgrad", "plaid"}}
    \cup {[kind |-> "image", pattern |-> p, w |-> 3, h |-> 2] :
            p \in {"white", "plaid"}}

\* Image.open(..).convert('RGB') as an array
Decode(bytes) == Raster(bytes.h, bytes.w, LAMBDA y, x: ImagePixel(bytes.pattern, y, x))

Rect(x0, y0, x1, y1) == <<<<x0, y0>>, <<x1, y0>>, <<x1, y1>>, <<x0, y1>>>>

QuadInputs ==
    { Rect(2, 1, 4, 2), Rect(2, 1, 3, 2), Rect(3, 2, 3, 2), Rect(0, 0, 6, 5),
      Rect(-5, 1, -3, 2), Rect(9, 1, 10, 2), Rect(2, -5, 3, -3), Rect(2, 8, 3, 9),
      Rect(-1, -1, 1, 1), Rect(5, 4, 8, 7) }

CandidateInputs ==
    {[quad |-> q] : q \in QuadInputs}
    \cup {[quad |-> q, bbox |-> BBox(0, 0, 7, 6)] : q \in QuadInputs}
    \cup {[quad |-> q, bbox |-> BBox(-6, 1, 3, 2)] : q \in {Rect(2, 1, 4, 2)}}
    \cup { [bbox |-> BBox(0, 0, 7, 6)],
           [quad |-> Rect(2, 1, 4, 2), bbox |-> [x |-> 0, y |-> 0]] }

\* candidates whose quad is None
NoQuadCandidateInputs ==
    { [quad |-> None], [quad |-> None, bbox |-> BBox(0, 0, 7, 6)] }

WellFormed(c) ==
    /\ "quad" \in DOMAIN c
    /\ c.quad # None
    /\ "bbox" \in DOMAIN c => DOMAIN c.bbox = {"x", "y", "w", "h"}

\* ------------------------------------------------------------------------
\* pipeline.py: generate_patch, one action per step of the try block
\* ------------------------------------------------------------------------
Init ==
    /\ image_bytes \in ImageInputs
    /\ \/ candidate \in CandidateInputs
       \/ candidate \in NoQuadCandidateInputs
    /\ padding_px \in (-1)..MaxPad
    /\ mode \in Modes
    /\ pc = "load"
    /\ image_bgr = None /\ bbox_orig = None /\ bbox_padded = None
    /\ bbox_final = None /\ mask = None /\ roi = None /\ roi_mask = None
    /\ bg_model = "unset" /\ filled_roi = None /\ result_image = None
    /\ debug_info = [mode |-> mode, algo_version |-> "v1", padding_px |-> padding_px]
    /\ result = None /\ escaped = None
    /\ calls = <<>>
    /\ g_pc = "idle" /\ g_quad = None /\ g_bbox = None /\ g_size = None /\ g_out = None
    /\ ExtIdle

\* An exception of class e leaves the try block: the handler of lines 165-171
\* returns the failure result, with the debug_info dict as it stands (dbg);
\* an exception the handler does not name leaves generate_patch.
Throw(e, dbg) ==
    /\ pc' = "done"
    /\ IF except_Exception(e)
       THEN /\ result' = PatchGenerationResult(FALSE, None, None, dbg, Str(e))
            /\ escaped' = None
       ELSE /\ result' = None
            /\ escaped' = Str(e)

\* Step 1, lines 72-77
LoadImage ==
    /\ pc = "load"
    /\ IF image_bytes.kind = "garbage"
       THEN /\ Throw("UnidentifiedImageError", debug_info)
            /\ UNCHANGED image_bgr
       ELSE /\ image_bgr' = cvtColor(Decode(image_bytes))
            /\ pc' = "bbox"
            /\ UNCHANGED <<result, escaped>>
    /\ UNCHANGED <<inputVars, bbox_orig, bbox_padded, bbox_final, mask, roi, roi_mask,
                   bg_model, filled_roi, debug_info, result_image, calls, geomVars, extVars>>

\* the exception lines 80-90 raise for this candidate, or "none"
BBoxStepError(c) ==
    IF "quad" \notin DOMAIN c THEN "KeyError"                        \* candidate["quad"]
    ELSE IF "bbox" \notin DOMAIN c /\ c.quad = None THEN "TypeError" \* quad_to_bbox(None)
    ELSE IF "bbox" \in DOMAIN c /\ DOMAIN c.bbox # {"x", "y", "w", "h"}
         THEN "KeyError"                                             \* expand_bbox
    ELSE IF c.quad = None THEN "TypeError"                           \* np.array(None)
    ELSE "none"

\* Step 2, lines 80-93
ComputeBBox ==
    /\ pc = "bbox"
    /\ IF BBoxStepError(candidate) # "none"
       THEN /\ Throw(BBoxStepError(candidate), debug_info)
            /\ UNCHANGED <<candidate, bbox_orig, bbox_padded, bbox_final, mask, debug_info>>
       ELSE LET quad == candidate.quad
                orig == IF "bbox" \in DOMAIN candidate
                        THEN candidate.bbox ELSE quad_to_bbox(quad)
                padded == expand_bbox(orig, padding_px)
                final  == clip_bbox_to_image(padded, image_bgr.w, image_bgr.h)
            IN  /\ bbox_orig' = orig
                \* bbox_orig is the candidate's own bbox dict where it has one
                /\ candidate' = IF "bbox" \in DOMAIN candidate
                                THEN [candidate EXCEPT
                                         !.bbox = expand_bbox_argument(orig, padding_px)]
                                ELSE candidate
                /\ bbox_padded' = padded
                /\ bbox_final' = final
                /\ mask' = rasterize_quad(quad, image_bgr.h, image_bgr.w)
                /\ debug_info' = debug_info @@ ("bbox_orig" :> orig) @@ ("bbox_final" :> final)
                /\ pc' = "roi"
                /\ UNCHANGED <<result, escaped>>
    /\ UNCHANGED <<image_bytes, padding_px, mode, image_bgr, roi, roi_mask, bg_model,
                   filled_roi, result_image, calls, geomVars, extVars>>

\* Step 3, lines 96-107
ExtractROI ==
    /\ pc = "roi"
    /\ LET x == bbox_final.x
           y == bbox_final.y
           bw == bbox_final.w
           bh == bbox_final.h
       IN  /\ roi' = Crop(image_bgr, y, y + bh, x, x + bw)
           /\ roi_mask' = Crop(mask, y, y + bh, x, x + bw)
    /\ bg_model' = "fallback"
    /\ filled_roi' = roi'
    /\ pc' = "solid"
    /\ UNCHANGED <<inputVars, image_bgr, bbox_orig, bbox_padded, bbox_final, mask,
                   debug_info, result_image, result, escaped, calls, geomVars, extVars>>

\* bg_pixels = roi[roi_mask == 0]
bg_pixels == WhereUnmasked(roi, roi_mask)

\* bg_pixels.reshape(-1, bg_pixels.shape[-1], 3) is reshape(-1, 3, 3) of an
\* (N, 3) array: ValueError unless 3N is a multiple of 9
reshape_raises(pixels) == Len(pixels) % 3 # 0

\* a plausible slip: the solid test is skipped only when a gradient is asked for
SolidModesAll == Modes \ {"gradient"}
\* mode in ["auto", "solid"]
SolidModes == {"auto", "solid"}

\* a plausible slip: the gradient branch is not guarded by the solid result
GradientGuardNoFallback == mode \in {"auto", "gradient"}
\* bg_model == "fallback" and mode in ["auto", "gradient"]
GradientGuard == bg_model = "fallback" /\ mode \in {"auto", "gradient"}

\* Step 4a, lines 109-118
SolidTest ==
    /\ pc = "solid"
    /\ IF mode \in SolidModes
       THEN IF reshape_raises(bg_pixels)
            THEN /\ Throw("ValueError", debug_info)
                 /\ UNCHANGED <<bg_model, filled_roi, debug_info, calls>>
            ELSE LET res == is_solid_color(bg_pixels)
                 IN  IF res.is_solid
                     THEN IF zeros_raises(bbox_final.h, bbox_final.w)
                          THEN /\ Throw("ValueError", debug_info)
                               /\ bg_model' = "solid"
                               /\ calls' = calls \o <<"is_solid_color", "generate_solid_fill">>
                               /\ UNCHANGED <<filled_roi, debug_info>>
                          ELSE /\ bg_model' = "solid"
                               /\ filled_roi' = FillWhereMasked(filled_roi, roi_mask,
                                      generate_solid_fill(bbox_final.h, bbox_final.w,
                                                          res.mean_color))
                               /\ debug_info' = debug_info @@ ("solid_color" :> res.mean_color)
                               /\ calls' = calls \o <<"is_solid_color", "generate_solid_fill">>
                               /\ pc' = "gradient"
                               /\ UNCHANGED <<result, escaped>>
                     ELSE /\ calls' = Append(calls, "is_solid_color")
                          /\ pc' = "gradient"
                          /\ UNCHANGED <<bg_model, filled_roi, debug_info, result, escaped>>
       ELSE /\ pc' = "gradient"
            /\ UNCHANGED <<bg_model, filled_roi, debug_info, calls, result, escaped>>
    /\ UNCHANGED <<inputVars, image_bgr, bbox_orig, bbox_padded, bbox_final, mask,
                   roi, roi_mask, result_image, geomVars, extVars>>

\* bg_region.size of line 122-123: (N, 1, 3) for N > 0 background pixels,
\* np.array([]) otherwise
bg_region_size == IF Len(bg_pixels) > 0 THEN 3 * Len(bg_pixels) ELSE 0

\* Step 4b, lines 120-131
GradientTest ==
    /\ pc = "gradient"
    /\ IF GradientGuard /\ bg_region_size > MinBgRegionSize
       THEN \E res \in fit_linear_gradient(roi) :
              IF res.is_gradient
              THEN IF zeros_raises(bbox_final.h, bbox_final.w)
                   THEN /\ Throw("ValueError", debug_info)
                        /\ bg_model' = "gradient"
                        /\ calls' = calls \o <<"fit_linear_gradient", "generate_gradient_fill">>
                        /\ UNCHANGED <<filled_roi, debug_info>>
                   ELSE /\ bg_model' = "gradient"
                        /\ filled_roi' = FillWhereMasked(filled_roi, roi_mask,
                               generate_gradient_fill(bbox_final.h, bbox_final.w, res.params))
                        /\ debug_info' = debug_info @@ ("gradient_params" :> res.params)
                        /\ calls' = calls \o <<"fit_linear_gradient", "generate_gradient_fill">>
                        /\ pc' = "inpaint"
                        /\ UNCHANGED <<result, escaped>>
              ELSE /\ calls' = Append(calls, "fit_linear_gradient")
                   /\ pc' = "inpaint"
                   /\ UNCHANGED <<bg_model, filled_roi, debug_info, result, escaped>>
       ELSE /\ pc' = "inpaint"
            /\ UNCHANGED <<bg_model, filled_roi, debug_info, calls, result, escaped>>
    /\ UNCHANGED <<inputVars, image_bgr, bbox_orig, bbox_padded, bbox_final, mask,
                   roi, roi_mask, result_image, geomVars, extVars>>

\* Step 5, lines 134-141
Inpaint ==
    /\ pc = "inpaint"
    /\ IF bg_model = "fallback" \/ mode = "inpaint"
       THEN IF create_edge_mask_raises(roi_mask)
            THEN /\ Throw("cv2.error", debug_info)
                 /\ bg_model' = "inpaint"
                 /\ calls' = Append(calls, "create_edge_mask")
                 /\ UNCHANGED <<filled_roi, debug_info>>
            ELSE \E c \in InpaintPalette :
                 /\ bg_model' = "inpaint"
                 /\ filled_roi' = inpaint_auto(roi, roi_mask, "telea", c)
                 /\ debug_info' = debug_info @@ ("inpaint_method" :> "telea")
                                             @@ ("bg_model" :> "inpaint")
                 /\ calls' = calls \o <<"create_edge_mask", "inpaint_auto">>
                 /\ pc' = "compose"
                 /\ UNCHANGED <<result, escaped>>
       ELSE /\ debug_info' = debug_info @@ ("bg_model" :> bg_model)
            /\ pc' = "compose"
            /\ UNCHANGED <<bg_model, filled_roi, calls, result, escaped>>
    /\ UNCHANGED <<inputVars, image_bgr, bbox_orig, bbox_padded, bbox_final, mask,
                   roi, roi_mask, result_image, geomVars, extVars>>

\* Step 6 and the return, lines 145-163
Compose ==
    /\ pc = "compose"
    /\ LET x == bbox_final.x
           y == bbox_final.y
           bw == bbox_final.w
           bh == bbox_final.h
           img == Paste(image_bgr, y, y + bh, x, x + bw, filled_roi)
           patch == create_transparent_patch(img, mask, bbox_final, TRUE)
       IN  /\ result_image' = img
           /\ calls' = Append(calls, "create_transparent_patch")
           /\ IF patch.exc # "none"
              THEN Throw(patch.exc, debug_info)
              ELSE /\ result' = PatchGenerationResult(TRUE, patch.bytes, bbox_final,
                                                      debug_info, None)
                   /\ pc' = "done"
                   /\ UNCHANGED escaped
    /\ UNCHANGED <<inputVars, image_bgr, bbox_orig, bbox_padded, bbox_final, mask,
                   roi, roi_mask, bg_model, filled_roi, debug_info, geomVars, extVars>>

generate_patch ==
    \/ LoadImage
    \/ ComputeBBox
    \/ ExtractROI
    \/ SolidTest
    \/ GradientTest
    \/ Inpaint
    \/ Compose

Next == generate_patch

Spec == Init /\ [][Next]_vars

\* ------------------------------------------------------------------------
\* geometry.py applied to drawn inputs
\* ------------------------------------------------------------------------
GeomPoints == ((-1)..MaxCoord) \X ((-1)..MaxCoord)

GeomBBoxes ==
    {BBox(x, y, w, h) : x \in (-MaxOff)..(MaxDim + 1), y \in (-MaxOff)..(MaxDim + 1),
                        w \in 0..MaxDim, h \in 0..MaxDim}

GeomInit ==
    /\ image_bytes = [kind |-> "garbage"]
    /\ candidate = [quad |-> None]
    /\ padding_px = 0
    /\ mode = "auto"
    /\ pc = "idle"
    /\ image_bgr = None /\ bbox_orig = None /\ bbox_padded = None
    /\ bbox_final = None /\ mask = None /\ roi = None /\ roi_mask = None
    /\ bg_model = "unset" /\ filled_roi = None /\ result_image = None
    /\ debug_info = None
    /\ result = None /\ escaped = None
    /\ calls = <<>>
    /\ ExtIdle
    /\ g_out = <<>>
    /\ \/ /\ g_pc = "quad"
          /\ g_quad \in [1..4 -> GeomPoints]
          /\ g_bbox = None
          /\ g_size = None
       \/ /\ g_pc = "bbox"
          /\ g_quad = None
          /\ g_bbox \in GeomBBoxes
          /\ g_size \in (1..MaxDim) \X (1..MaxDim)

pipelineVars == <<inputVars, pc, localVars, result, escaped, calls>>

GeomQuadToBBox ==
    /\ g_pc = "quad"
    /\ g_out' = <<quad_to_bbox(g_quad)>>
    /\ g_pc' = "quad_done"
    /\ UNCHANGED <<g_quad, g_bbox, g_size, pipelineVars, extVars>>

GeomClip ==
    /\ g_pc = "bbox"
    /\ g_out' = <<clip_bbox_to_image(g_bbox, g_size[1], g_size[2])>>
    /\ g_pc' = "clipped"
    /\ UNCHANGED <<g_quad, g_bbox, g_size, pipelineVars, extVars>>

\* the clipped bbox is clipped again
GeomClipAgain ==
    /\ g_pc = "clipped"
    /\ g_out' = Append(g_out, clip_bbox_to_image(g_out[1], g_size[1], g_size[2]))
    /\ g_pc' = "reclipped"
    /\ UNCHANGED <<g_quad, g_bbox, g_size, pipelineVars, extVars>>

GeomNext == GeomQuadToBBox \/ GeomClip \/ GeomClipAgain

GeomSpec == GeomInit /\ [][GeomNext]_vars

\* ------------------------------------------------------------------------
\* Properties of generate_patch (Spec)
\* ------------------------------------------------------------------------
Done == pc = "done"
Returned == Done /\ result # None
Succeeded == Returned /\ result.success
Failed == Returned /\ ~result.success
Decodable == image_bytes.kind = "image"
Called(f) == \E i \in 1..Len(calls) : calls[i] = f
Position(f) == CHOOSE i \in 1..Len(calls) : calls[i] = f

\* C1: generate_patch never lets an exception escape: every call ends with a
\* returned PatchGenerationResult, and a call in which a step failed (here:
\* undecodable bytes, a missing or None quad, a bbox without its keys, or any
\* later step that raised) returns success = false with error set to the
\* string of the exception.
C1_NeverRaises ==
    /\ escaped = None
    /\ Done => /\ result # None
               /\ result.success \in BOOLEAN
               /\ ~result.success => result.error \in {Str(e) : e \in ExceptionClasses}
               /\ (~Decodable \/ BBoxStepError(candidate) # "none") => ~result.success

C1_Witness ==
    /\ Failed
    /\ "quad" \notin DOMAIN candidate
    /\ result.error = Str("KeyError")

\* C2: in every returned result patch_bytes is present exactly when success
\* is true and error is present exactly when success is false.
C2_BytesIffSuccess ==
    Returned => /\ (result.patch_bytes # None) <=> result.success
                /\ (result.error # None) <=> ~result.success

C2_Witness ==
    /\ Succeeded
    /\ result.patch_bytes # None
    /\ result.error = None

\* the bbox lies entirely outside a W x H image on some side
FullyOutside(b, W, H) ==
    /\ b.w >= 0 /\ b.h >= 0
    /\ \/ b.x + b.w <= 0
       \/ b.y + b.h <= 0
       \/ b.x >= W
       \/ b.y >= H

\* C3: for a decodable image and a candidate whose padded bbox lies entirely
\* outside the image, generate_patch returns success = false (and does not
\* raise); it never returns success = true.
C3_OutsideBBoxFails ==
    (Done /\ Decodable /\ WellFormed(candidate) /\ bbox_padded # None
          /\ FullyOutside(bbox_padded, image_bgr.w, image_bgr.h))
    => /\ escaped = None
       /\ Failed

\* C7: in mode auto, when the clipped ROI (of positive width and height) holds
\* at least one background pixel and all its background pixels have one
\* colour c, generate_patch succeeds with
\* bg_model = solid and solid_color = c, and every masked pixel of the ROI is
\* filled with c.
UniformBackground ==
    /\ roi # None
    /\ Len(bg_pixels) >= 1
    /\ \A i \in 1..Len(bg_pixels) : bg_pixels[i] = bg_pixels[1]

C7_UniformBackgroundIsSolid ==
    (Done /\ mode = "auto" /\ Decodable /\ WellFormed(candidate) /\ UniformBackground
          /\ bbox_final.w > 0 /\ bbox_final.h > 0)
    => /\ Succeeded
       /\ result.debug_info.bg_model = "solid"
       /\ result.debug_info.solid_color = bg_pixels[1]
       /\ \A r \in 0..(roi.h - 1), c \in 0..(roi.w - 1) :
             roi_mask.px[r][c] > 0 => filled_roi.px[r][c] = bg_pixels[1]

\* C8: with mode = inpaint neither the solid test nor the gradient fit is
\* ever evaluated, and for a decodable image and a well-formed candidate with
\* a non-empty ROI the call succeeds by inpainting and reports bg_model =
\* inpaint, with no solid_color or gradient_params entry.
C8_InpaintBypassesFits ==
    mode = "inpaint" =>
        /\ ~Called("is_solid_color") /\ ~Called("fit_linear_gradient")
        /\ ~Called("generate_solid_fill") /\ ~Called("generate_gradient_fill")
        /\ (Done /\ roi # None /\ ~IsEmpty(roi)) =>
              /\ Succeeded
              /\ Called("inpaint_auto")
              /\ result.debug_info.bg_model = "inpaint"
              /\ "solid_color" \notin DOMAIN result.debug_info
              /\ "gradient_params" \notin DOMAIN result.debug_info

C8_Witness ==
    /\ mode = "inpaint" /\ Succeeded
    /\ image_bytes.pattern = "white"
    /\ Called("inpaint_auto")
    /\ \E r \in 0..(roi.h - 1), c \in 0..(roi.w - 1) : roi_mask.px[r][c] > 0

\* C9: in mode auto the background tests run in priority order and a
\* successful call chooses exactly one model: the solid test comes first, the
\* gradient fit is evaluated only after solid was rejected, inpainting only
\* after neither fill was generated; bg_model is solid iff the solid test
\* accepts, else gradient iff the gradient fit was accepted, else inpaint, and
\* debug_info carries the parameters of the chosen model only.
ParamKeys == {"solid_color", "gradient_params", "inpaint_method"}
KeyOf(m) ==
    CASE m = "solid" -> "solid_color"
      [] m = "gradient" -> "gradient_params"
      [] m = "inpaint" -> "inpaint_method"

C9_PriorityChain ==
    mode = "auto" =>
        /\ Called("fit_linear_gradient") =>
              /\ Called("is_solid_color")
              /\ Position("is_solid_color") < Position("fit_linear_gradient")
              /\ ~Called("generate_solid_fill")
        /\ Called("inpaint_auto") =>
              /\ Called("is_solid_color")
              /\ ~Called("generate_solid_fill")
              /\ ~Called("generate_gradient_fill")
        /\ Succeeded =>
              /\ bg_model \in {"solid", "gradient", "inpaint"}
              /\ result.debug_info.bg_model = bg_model
              /\ calls[1] = "is_solid_color"
              /\ bg_model = "solid" <=> is_solid_color(bg_pixels).is_solid
              /\ bg_model = "gradient" <=>
                    (~is_solid_color(bg_pixels).is_solid /\ Called("generate_gradient_fill"))
              /\ bg_model = "inpaint" <=> Called("inpaint_auto")
              /\ Cardinality({f \in {"generate_solid_fill", "generate_gradient_fill",
                                      "inpaint_auto"} : Called(f)}) = 1
              /\ DOMAIN result.debug_info \cap ParamKeys = {KeyOf(bg_model)}

C9_Witness ==
    /\ mode = "auto" /\ Succeeded
    /\ bg_model = "inpaint"
    /\ Called("fit_linear_gradient")

\* C10: whenever the solid or the gradient model is selected, every pixel of
\* the reconstructed image with mask value 0 equals the original pixel, and a
\* pixel differs from the original only where mask > 0 inside the ROI, where
\* it holds the value of the analytic fill.
InROI(y, x) ==
    /\ y >= bbox_final.y /\ y < bbox_final.y + bbox_final.h
    /\ x >= bbox_final.x /\ x < bbox_final.x + bbox_final.w

AnalyticFill ==
    IF bg_model = "solid"
    THEN generate_solid_fill(bbox_final.h, bbox_final.w, debug_info.solid_color)
    ELSE generate_gradient_fill(bbox_final.h, bbox_final.w, debug_info.gradient_params)

C10_BackgroundUntouched ==
    (Succeeded /\ bg_model \in {"solid", "gradient"}) =>
        \A y \in 0..(image_bgr.h - 1), x \in 0..(image_bgr.w - 1) :
            IF mask.px[y][x] > 0 /\ InROI(y, x)
            THEN result_image.px[y][x] =
                    AnalyticFill.px[y - bbox_final.y][x - bbox_final.x]
            ELSE result_image.px[y][x] = image_bgr.px[y][x]

C10_Witness ==
    /\ Succeeded /\ bg_model = "solid"
    /\ image_bytes.pattern = "grain"
    /\ \E y \in 0..(image_bgr.h - 1), x \in 0..(image_bgr.w - 1) :
          /\ mask.px[y][x] > 0 /\ InROI(y, x)
          /\ result_image.px[y][x] # image_bgr.px[y][x]
    /\ \E y \in 0..(image_bgr.h - 1), x \in 0..(image_bgr.w - 1) :
          /\ mask.px[y][x] = 0 /\ InROI(y, x)
          /\ image_bgr.px[y][x] # debug_info.solid_color

\* ------------------------------------------------------------------------
\* Properties of geometry.py (GeomSpec)
\* ------------------------------------------------------------------------
SetMin(S) == CHOOSE m \in S : \A v \in S : m <= v
SetMax(S) == CHOOSE m \in S : \A v \in S : m >= v

\* C4: clip_bbox_to_image returns the intersection of the bbox with
\* [0,W) x [0,H): x >= 0, y >= 0, w >= 0, h >= 0, x + w <= W, y + h <= H, and
\* zero area when the bbox does not meet the image.
C4_ClipWithinImage ==
    g_pc = "clipped" =>
        LET b == g_out[1]
            W == g_size[1]
            H == g_size[2]
        IN  /\ b.x >= 0 /\ b.y >= 0 /\ b.w >= 0 /\ b.h >= 0
            /\ b.x + b.w <= W /\ b.y + b.h <= H
            /\ FullyOutside(g_bbox, W, H) => b.w * b.h = 0

\* C5: clip_bbox_to_image is idempotent: clipping a clipped bbox returns it
\* unchanged, field by field.
C5_ClipIdempotent ==
    g_pc = "reclipped" =>
        /\ g_out[2].x = g_out[1].x /\ g_out[2].y = g_out[1].y
        /\ g_out[2].w = g_out[1].w /\ g_out[2].h = g_out[1].h

C5_Witness ==
    /\ g_pc = "reclipped"
    /\ g_bbox.x < 0 /\ g_bbox.x + g_bbox.w > g_size[1]
    /\ g_out[1] # g_bbox
    /\ g_out[2] = g_out[1]

\* the quad with the points at positions k and k + 1 exchanged
SwapAt(q, k) == [q EXCEPT ![k] = q[k + 1], ![k + 1] = q[k]]

\* C6: quad_to_bbox returns the tightest axis-aligned box of the 4 points:
\* x and y are the least coordinates, x + w and y + h the greatest, every
\* point lies in the box, each side of the box holds a point, and exchanging
\* two neighbouring points of the list (hence any reordering) leaves the
\* result unchanged.
C6_TightBBox ==
    g_pc = "quad_done" =>
        LET b == g_out[1]
            X == {g_quad[i][1] : i \in 1..4}
            Y == {g_quad[i][2] : i \in 1..4}
        IN  /\ b.x = SetMin(X) /\ b.x + b.w = SetMax(X)
            /\ b.y = SetMin(Y) /\ b.y + b.h = SetMax(Y)
            /\ \A i \in 1..4 : /\ b.x <= g_quad[i][1] /\ g_quad[i][1] <= b.x + b.w
                               /\ b.y <= g_quad[i][2] /\ g_quad[i][2] <= b.y + b.h
            /\ \E i \in 1..4 : g_quad[i][1] = b.x
            /\ \E i \in 1..4 : g_quad[i][1] = b.x + b.w
            /\ \E i \in 1..4 : g_quad[i][2] = b.y
            /\ \E i \in 1..4 : g_quad[i][2] = b.y + b.h
            /\ \A k \in 1..3 : quad_to_bbox(SwapAt(g_quad, k)) = b

C6_Witness ==
    /\ g_pc = "quad_done"
    /\ g_quad = <<<<1, 0>>, <<-1, 1>>, <<0, -1>>, <<0, 0>>>>
    /\ g_out[1] = BBox(-1, -1, 2, 2)

\* ========================================================================
\* compose.py applied on its own (ComposeSpec)
\* ========================================================================
MaxSide == 2       \* rasters of ComposeSpec have sides 1 .. MaxSide

\* no call of generate_patch is in progress
PipelineIdle ==
    /\ image_bytes = [kind |-> "garbage"]
    /\ candidate = [quad |-> None]
    /\ padding_px = 0
    /\ mode = "auto"
    /\ pc = "idle"
    /\ image_bgr = None /\ bbox_orig = None /\ bbox_padded = None
    /\ bbox_final = None /\ mask = None /\ roi = None /\ roi_mask = None
    /\ bg_model = "unset" /\ filled_roi = None /\ result_image = None
    /\ debug_info = None
    /\ result = None /\ escaped = None
    /\ calls = <<>>

\* no call of geometry.py on its own is in progress
GeomIdle ==
    g_pc = "idle" /\ g_quad = None /\ g_bbox = None /\ g_size = None /\ g_out = None

\* a  patch * alpha_3ch + roi * (1 - alpha_3ch)  channel cut to uint8, with
\* alpha = patch_alpha / 255.0 (compose.py:89-94).  The arguments drawn
\* below carry alpha 0 and 255 only, where the float32 arithmetic is exact.
BlendChannel(p, r, a) == (p * a + r * (255 - a)) \div 255

\* the early return of an overlay that does not fit is the copy of the base
blend_patch_with_alpha(base_image, patch, patch_alpha, offset) ==
    LET x  == offset[1]
        y  == offset[2]
        ph == patch.h
        pw == patch.w
    IN  IF x < 0 \/ y < 0 \/ x + pw > base_image.w \/ y + ph > base_image.h
        THEN base_image
        ELSE [base_image EXCEPT !.px =
                [r \in 0..(base_image.h - 1) |-> [c \in 0..(base_image.w - 1) |->
                    IF r \in y..(y + ph - 1) /\ c \in x..(x + pw - 1)
                    THEN [ch \in 1..3 |->
                            BlendChannel(patch.px[r - y][c - x][ch],
                                         base_image.px[r][c][ch],
                                         patch_alpha.px[r - y][c - x])]
                    ELSE base_image.px[r][c]]]]

\* ---- arguments
Sides == 1..MaxSide
Cells(h, w) == (0..(h - 1)) \X (0..(w - 1))

\* a BGR image whose pixels all differ, and differ in their B and R channels
KImage(h, w) == Raster(h, w, LAMBDA y, x: <<10 * y + x, 50, 200>>)

\* a mask that is set on the cells of bits, with the values 255 and 100
KMask(h, w, bits) ==
    Raster(h, w, LAMBDA y, x: IF <<y, x>> \in bits
                              THEN (IF (x + y) % 2 = 0 THEN 255 ELSE 100)
                              ELSE 0)

\* bboxes of non-negative extent at origins from -1 to the far edge
KBBoxes(h, w) ==
    {BBox(x, y, bw, bh) : x \in (-1)..w, y \in (-1)..h, bw \in 0..w, bh \in 0..h}

KPatch(h, w) == Raster(h, w, LAMBDA y, x: <<7, 8, 9>>)

AlphaPatterns == {"opaque", "transparent", "checker"}
KAlpha(h, w, pat) ==
    Raster(h, w, LAMBDA y, x: IF pat = "opaque" THEN 255
                              ELSE IF pat = "transparent" THEN 0
                              ELSE IF (x + y) % 2 = 0 THEN 255 ELSE 0)

ComposeInit ==
    /\ PipelineIdle /\ GeomIdle /\ StyleIdle /\ ConcIdle /\ ApiIdle
    /\ k_out = None
    /\ \/ /\ k_pc = "patch"
          /\ \E h \in Sides, w \in Sides :
                \E bits \in SUBSET Cells(h, w), b \in KBBoxes(h, w), f \in BOOLEAN :
                   k_in = [background |-> KImage(h, w), mask |-> KMask(h, w, bits),
                           bbox |-> b, feather |-> f]
       \/ /\ k_pc = "blend"
          /\ \E h \in Sides, w \in Sides, ph \in Sides, pw \in Sides :
                \E pat \in AlphaPatterns, x \in (-1)..(w + 1), y \in (-1)..(h + 1) :
                   k_in = [base_image |-> KImage(h, w), patch |-> KPatch(ph, pw),
                           patch_alpha |-> KAlpha(ph, pw, pat), offset |-> <<x, y>>]

\* create_transparent_patch(background, mask, bbox, feather)
ComposePatch ==
    /\ k_pc = "patch"
    /\ k_out' = create_transparent_patch(k_in.background, k_in.mask, k_in.bbox, k_in.feather)
    /\ k_pc' = "patch_done"
    /\ UNCHANGED <<k_in, pipelineVars, geomVars, styleVars, concVars, apiVars>>

\* blend_patch_with_alpha(base_image, patch, patch_alpha, offset)
ComposeBlend ==
    /\ k_pc = "blend"
    /\ k_out' = blend_patch_with_alpha(k_in.base_image, k_in.patch, k_in.patch_alpha,
                                       k_in.offset)
    /\ k_pc' = "blend_done"
    /\ UNCHANGED <<k_in, pipelineVars, geomVars, styleVars, concVars, apiVars>>

ComposeNext == ComposePatch \/ ComposeBlend

ComposeSpec == ComposeInit /\ [][ComposeNext]_vars

\* ------------------------------------------------------------------------
\* Properties of compose.py (ComposeSpec)
\* ------------------------------------------------------------------------
\* the bbox lies inside the h x w image and has an extent
InsideImage(b, h, w) ==
    /\ b.x >= 0 /\ b.y >= 0 /\ b.w >= 1 /\ b.h >= 1
    /\ b.x + b.w <= w /\ b.y + b.h <= h

\* the alpha plane of the decoded RGBA image
DecodedAlpha(png) == [h |-> png.h, w |-> png.w,
                      px |-> [r \in 0..(png.h - 1) |-> [c \in 0..(png.w - 1) |->
                                 png.rgba[r][c][4]]]]

PatchCase ==
    /\ k_pc = "patch_done"
    /\ ~k_in.feather
    /\ InsideImage(k_in.bbox, k_in.background.h, k_in.background.w)

\* C11: with feather = false and a bbox inside the image, the patch is
\* encoded, it has the bbox's size, and the alpha of its decoded pixel (i, j)
\* is mask[bbox.y + j][bbox.x + i]; its colour is the background's, as RGB.
C11_AlphaIsMaskCrop ==
    PatchCase =>
        /\ k_out.exc = "none"
        /\ LET a == DecodedAlpha(k_out.bytes)
               b == k_in.bbox
           IN  /\ a.h = b.h /\ a.w = b.w
               /\ \A j \in 0..(b.h - 1), i \in 0..(b.w - 1) :
                     /\ a.px[j][i] = k_in.mask.px[b.y + j][b.x + i]
                     /\ k_out.bytes.rgba[j][i][1] = k_in.background.px[b.y + j][b.x + i][3]
                     /\ k_out.bytes.rgba[j][i][3] = k_in.background.px[b.y + j][b.x + i][1]

\* a patch of two pixels or more whose alpha holds 0, 100 and 255 side by side
C11_Witness ==
    /\ PatchCase
    /\ k_out.exc = "none"
    /\ {0, 100, 255} \subseteq
          {DecodedAlpha(k_out.bytes).px[j][i] :
              j \in 0..(k_out.bytes.h - 1), i \in 0..(k_out.bytes.w - 1)}

\* the overlay, cut to the part of it that lies on the image, blended there
ClippedBlend(base_image, patch, patch_alpha, offset) ==
    [base_image EXCEPT !.px =
        [r \in 0..(base_image.h - 1) |-> [c \in 0..(base_image.w - 1) |->
            IF /\ r - offset[2] \in 0..(patch.h - 1)
               /\ c - offset[1] \in 0..(patch.w - 1)
            THEN [ch \in 1..3 |->
                    BlendChannel(patch.px[r - offset[2]][c - offset[1]][ch],
                                 base_image.px[r][c][ch],
                                 patch_alpha.px[r - offset[2]][c - offset[1]])]
            ELSE base_image.px[r][c]]]]

\* C12: blend_patch_with_alpha returns the base outside the intersection of
\* the overlay rectangle with the image and overlay*alpha + base*(1-alpha) on
\* the intersection, for every offset: a partly overlapping overlay is clipped
\* and blended, an overlay outside the image gives the base.
C12_BlendClipsOverlay ==
    k_pc = "blend_done" =>
        k_out = ClippedBlend(k_in.base_image, k_in.patch, k_in.patch_alpha, k_in.offset)

\* ========================================================================
\* utils/text_style.py (StyleSpec)
\* ========================================================================
\* int(a / b) for b > 0: Python's int() cuts towards zero
TruncDiv(a, b) == IF a >= 0 THEN a \div b ELSE -((-a) \div b)

\* d.get(k, 0)
Get0(d, k) == IF k \in DOMAIN d THEN d[k] ELSE 0

\* ---- text: a string is the sequence of its characters, a character one of
\* the tokens below ("han" stands for an ideograph of 一 .. 鿿)
UpperChars == {"A", "B"}
LowerChars == {"a", "b"}
HanChars   == {"han"}
has_chinese(text)   == \E i \in 1..Len(text) : text[i] \in HanChars
has_uppercase(text) == \E i \in 1..Len(text) : text[i] \in UpperChars
has_lowercase(text) == \E i \in 1..Len(text) : text[i] \in LowerChars

\* ---- estimate_font_size: bbox_h * 0.75, no upper limit
SimpleMinFontSize == 12
estimate_font_size(bbox) ==
    Max(SimpleMinFontSize, TruncDiv(Get0(bbox, "h") * 3, 4))

\* ---- estimate_font_size_adaptive.  The three factors are kept in
\* hundredths and confidence in percent; int(bbox_h * scale) is the exact
\* product cut to an integer (the heights drawn are those where the float
\* product is cut to the same integer).
MinFontSize == 12
MaxFontSize == 500
base_scale(text) ==
    IF has_chinese(text) THEN 80
    ELSE IF has_uppercase(text) /\ ~has_lowercase(text) THEN 70
    ELSE IF has_lowercase(text) /\ ~has_uppercase(text) THEN 85
    ELSE 75
height_adjust(bbox_h) ==
    IF bbox_h < 20 THEN 105 ELSE IF bbox_h < 40 THEN 100
    ELSE IF bbox_h < 60 THEN 97 ELSE 94
confidence_adjust(confidence) ==
    IF confidence < 70 THEN 95 ELSE IF confidence < 85 THEN 98 ELSE 100
estimate_font_size_adaptive(bbox, text, confidence) ==
    LET bbox_h == Get0(bbox, "h")
        scale  == base_scale(text) * height_adjust(bbox_h) * confidence_adjust(confidence)
    IN  IF bbox_h = 0 THEN MinFontSize
        ELSE Max(MinFontSize, Min(TruncDiv(bbox_h * scale, 1000000), MaxFontSize))

\* ---- estimate_font_size_from_pixels
\* np.sum(roi_mask > 0, axis=1)[r]
RowCount(m, r) == Cardinality({c \in 0..(m.w - 1) : m.px[r][c] > 0})

\* the ROI of the mask the row projection is taken on, or None where the
\* function returns estimate_font_size(bbox) before measuring
PixelROI(m, bbox) ==
    LET bbox_h == Get0(bbox, "h")
        y == Max(0, Min(Get0(bbox, "y"), m.h - 1))
        x == Max(0, Min(Get0(bbox, "x"), m.w - 1))
        h == Min(bbox_h, m.h - y)
        w == Min(Get0(bbox, "w"), m.w - x)
    IN  IF bbox_h = 0 \/ IsEmpty(m) THEN None
        ELSE IF h <= 0 \/ w <= 0 THEN None
        ELSE Crop(m, y, y + h, x, x + w)

\* rows whose count is more than 0.3 of the largest count
MainRows(roi_m) ==
    LET peak == SetMax({RowCount(roi_m, r) : r \in 0..(roi_m.h - 1)})
    IN  {r \in 0..(roi_m.h - 1) : 10 * RowCount(roi_m, r) > 3 * peak}

\* the row projection gives a size: the ROI exists and holds a mask pixel
PixelFeasible(m, bbox) ==
    /\ PixelROI(m, bbox) # None
    /\ \E r \in 0..(PixelROI(m, bbox).h - 1) : RowCount(PixelROI(m, bbox), r) > 0

\* cap_ratio in hundredths
cap_ratio(text) == IF has_chinese(text) THEN 75 ELSE 68

estimate_font_size_from_pixels(image, m, bbox, text) ==
    IF ~PixelFeasible(m, bbox) THEN estimate_font_size(bbox)
    ELSE LET main_height == Cardinality(MainRows(PixelROI(m, bbox)))
         IN  Max(MinFontSize,
                 Min(TruncDiv(main_height * 100, cap_ratio(text)), MaxFontSize))

\* ---- estimate_font_weight
BoldFillRatio     == 50      \* fill_ratio > 0.5, in hundredths
SemiboldFillRatio == 35      \* fill_ratio > 0.35, in hundredths
NonZero(m) == {<<y, x>> \in (0..(m.h - 1)) \X (0..(m.w - 1)) : m.px[y][x] > 0}

\* a plausible slip: the fill ratio taken over the whole mask, not over the
\* bounding rectangle of its pixels
estimate_font_weight_whole_mask(image, m) ==
    LET mask_area == Cardinality(NonZero(m))
        bbox_area == m.h * m.w
    IN  IF NonZero(m) = {} THEN 400
        ELSE IF 100 * mask_area > BoldFillRatio * bbox_area THEN 700
        ELSE IF 100 * mask_area > SemiboldFillRatio * bbox_area THEN 600
        ELSE 400

\* a plausible slip: the fill ratio counts the mask pixels that are dark in the
\* image (blue channel up to 10) in place of all mask pixels
estimate_font_weight_dark_pixels(image, m) ==
    LET coords    == NonZero(m)
        w         == SetMax({p[2] : p \in coords}) - SetMin({p[2] : p \in coords}) + 1
        h         == SetMax({p[1] : p \in coords}) - SetMin({p[1] : p \in coords}) + 1
        mask_area == Cardinality({p \in coords :
                                     image = None \/ image.px[p[1]][p[2]][1] <= 10})
        bbox_area == w * h
    IN  IF coords = {} THEN 400
        ELSE IF bbox_area = 0 THEN 400
        ELSE IF 100 * mask_area > BoldFillRatio * bbox_area THEN 700
        ELSE IF 100 * mask_area > SemiboldFillRatio * bbox_area THEN 600
        ELSE 400

estimate_font_weight(image, m) ==
    LET coords    == NonZero(m)
        w         == SetMax({p[2] : p \in coords}) - SetMin({p[2] : p \in coords}) + 1
        h         == SetMax({p[1] : p \in coords}) - SetMin({p[1] : p \in coords}) + 1
        mask_area == Cardinality(coords)
        bbox_area == w * h
    IN  IF coords = {} THEN 400
        ELSE IF bbox_area = 0 THEN 400
        ELSE IF 100 * mask_area > BoldFillRatio * bbox_area THEN 700
        ELSE IF 100 * mask_area > SemiboldFillRatio * bbox_area THEN 600
        ELSE 400

\* ---- estimate_text_color
DefaultTextColor == <<30, 30, 30, 255>>

\* the sum of channel ch of image over the pixels of row y where the mask is set
RowChannelSum(image, m, y, ch) ==
    SumTo([x \in 0..(image.w - 1) |->
              IF m.px[y][x] > 0 THEN image.px[y][x][ch] ELSE 0], image.w)

\* The set of colours the call can return, over text_pixels = image[mask > 0].
\* The mean is exact.  The main k-means centre and the medians are a sample
\* colour when the samples have one colour, and otherwise lie channel by
\* channel between the least and the greatest sample value.
estimate_text_color(image, m, method) ==
    LET text_pixels == NonZero(m)
        n        == Cardinality(text_pixels)
        chan(ch) == {image.px[p[1]][p[2]][ch] : p \in text_pixels}
        sum(ch)  == SumTo([y \in 0..(image.h - 1) |-> RowChannelSum(image, m, y, ch)],
                          image.h)
        clip(v)  == Max(0, Min(255, v))
    IN  IF n = 0 THEN {DefaultTextColor}
        ELSE IF method \in {"kmeans", "edge", "median"}
        THEN {<<r, g, b, 255>> : r \in SetMin(chan(3))..SetMax(chan(3)),
                                 g \in SetMin(chan(2))..SetMax(chan(2)),
                                 b \in SetMin(chan(1))..SetMax(chan(1))}
        ELSE {<<clip(sum(3) \div n), clip(sum(2) \div n), clip(sum(1) \div n), 255>>}

\* ---- estimate_text_style
\* f"rgba({r},{g},{b},{a / 255.0:.2f})"
FillString(c) == [r |-> c[1], g |-> c[2], b |-> c[3],
                  a |-> IF c[4] = 255 THEN "1.00" ELSE "other"]

\* bbox.get(..) of a bbox that is None raises AttributeError: in
\* estimate_font_size_from_pixels before its try block (line 239), in
\* estimate_font_size_adaptive and estimate_font_size on their first line
get_raises(bbox) == bbox = None

\* the size and the strategy named in debug, or the class of the exception.
\* With "auto" the adaptive estimator runs only in the handler of an
\* exception raised by estimate_font_size_from_pixels.
FontSizeStep(image, m, bbox, text, confidence, font_size_method) ==
    IF font_size_method = "auto"
    THEN IF ~get_raises(bbox)
         THEN [exc |-> "none", actual_method |-> "pixel",
               font_size |-> estimate_font_size_from_pixels(image, m, bbox, text)]
         ELSE IF get_raises(bbox)
         THEN [exc |-> "AttributeError"]
         ELSE [exc |-> "none", actual_method |-> "adaptive",
               font_size |-> estimate_font_size_adaptive(bbox, text, confidence)]
    ELSE IF get_raises(bbox) THEN [exc |-> "AttributeError"]
    ELSE IF font_size_method = "pixel"
    THEN [exc |-> "none", actual_method |-> "pixel",
          font_size |-> estimate_font_size_from_pixels(image, m, bbox, text)]
    ELSE IF font_size_method = "adaptive"
    THEN [exc |-> "none", actual_method |-> "adaptive",
          font_size |-> estimate_font_size_adaptive(bbox, text, confidence)]
    ELSE [exc |-> "none", actual_method |-> "simple",
          font_size |-> estimate_font_size(bbox)]

\* text[:20] + "..." if len(text) > 20 else text
TextPreview(text) == IF Len(text) > 20 THEN SubSeq(text, 1, 20) \o <<".", ".", ".">> ELSE text

\* the returned dict: the style, with the debug entry when debug is set
StyleDict(c, fs, weight, m, text, color_method, debug) ==
    LET style == [fontFamily |-> "System", fontSize |-> fs.font_size,
                  fontWeight |-> weight, fill |-> FillString(c),
                  letterSpacing |-> 0, lineHeight |-> "1.2"]
        dbg   == [color_rgb |-> <<c[1], c[2], c[3]>>, color_method |-> color_method,
                  font_size_method |-> fs.actual_method,
                  sample_count |-> Cardinality(NonZero(m)),
                  text_preview |-> TextPreview(text)]
    IN  IF debug THEN [debug |-> dbg] @@ style ELSE style

\* candidate.get("text", "") and candidate.get("confidence", 1.0)
CandidateText(cand) == IF "text" \in DOMAIN cand THEN cand.text ELSE <<>>
CandidateConfidence(cand) == IF "confidence" \in DOMAIN cand THEN cand.confidence ELSE 100

\* the set of outcomes [exc, style] of one call
estimate_text_style(image, cand, color_method, font_size_method, debug) ==
    IF "quad" \notin DOMAIN cand \/ "bbox" \notin DOMAIN cand
    THEN {[exc |-> "KeyError", style |-> None]}
    ELSE
    LET text       == CandidateText(cand)
        confidence == CandidateConfidence(cand)
        m          == rasterize_quad(cand.quad, image.h, image.w)
        fs         == FontSizeStep(image, m, cand.bbox, text, confidence, font_size_method)
    IN  IF fs.exc # "none" THEN {[exc |-> fs.exc, style |-> None]}
        ELSE {[exc |-> "none",
               style |-> StyleDict(c, fs, estimate_font_weight(image, m), m, text,
                                   color_method, debug)] :
                  c \in estimate_text_color(image, m, color_method)}

\* ---- arguments
MaxMaskSide == 3   \* masks given to estimate_font_weight have sides 1 .. MaxMaskSide

StyleHeights == {4, 12}
\* an image tall enough for a row projection of more than 340 rows
TallHeights == {400}
StyleWidth == 2

\* "flat": one colour; "split": the B channel of the right column is 2 higher
StyleImage(pattern, h) ==
    Raster(h, StyleWidth, LAMBDA y, x:
        IF pattern = "split" /\ x = StyleWidth - 1 THEN <<12, 20, 30>> ELSE <<10, 20, 30>>)

\* quads over the whole image, over its left column from row 1 on, and
\* outside the image
StyleQuads(h) ==
    { Rect(0, 0, StyleWidth - 1, h - 1), Rect(0, 1, 0, h - 1), Rect(5, h + 3, 6, h + 4) }

\* heights from negative to above 1000
BBoxHeights == {-3, 0, 10, 16, 30, 50, 701, 1201}

StyleBBoxes ==
    {BBox(0, 0, 2, bh) : bh \in BBoxHeights}
    \cup {BBox(1, 1, 0, 30), BBox(-2, 2, 3, 30), BBox(0, 3, 2, 10), BBox(9, 9, 2, 30)}

StyleTexts == {<<>>, <<"A", "B">>, <<"a", "b">>, <<"A", "b">>, <<"han", "a">>}
Confidences == {50, 80, 100}

StyleCandidates(h) ==
    {[quad |-> q, bbox |-> b, text |-> t, confidence |-> c] :
        q \in StyleQuads(h), b \in StyleBBoxes, t \in StyleTexts, c \in Confidences}
    \cup {[quad |-> q, bbox |-> b] : q \in StyleQuads(h), b \in StyleBBoxes}

\* candidates that lack a key, or whose bbox is None
BrokenCandidates(h) ==
    {[quad |-> Rect(0, 1, 1, 2)], [bbox |-> BBox(0, 0, 2, 30)],
     [quad |-> Rect(0, 1, 1, 2), bbox |-> None]}

\* candidates on the tall image: the quad covers it, the bbox is taller
TallCandidates(h) ==
    {[quad |-> Rect(0, 0, StyleWidth - 1, h - 1), bbox |-> BBox(0, 0, 2, bh), text |-> t] :
        bh \in {701}, t \in {<<"A", "b">>, <<"han", "a">>}}

\* image pattern, color_method, debug
ImageColorDebug ==
    {<<"split", "kmeans", FALSE>>, <<"flat", "median", TRUE>>,
     <<"flat", "edge", FALSE>>, <<"split", "mean", TRUE>>}
FontSizeMethods == {"auto", "pixel", "adaptive", "simple"}

WeightMasks ==
    {KAlpha(h, w, "opaque") : h \in {4}, w \in {5}}
    \cup {Raster(4, 5, LAMBDA y, x: IF <<y, x>> \in {<<0, 0>>, <<3, 4>>} THEN 255 ELSE 0)}
    \cup UNION {{Raster(h, w, LAMBDA y, x: IF <<y, x>> \in bits THEN 255 ELSE 0) :
                    bits \in SUBSET Cells(h, w)} :
                 h \in 1..MaxMaskSide, w \in 1..MaxMaskSide}

StyleInit ==
    /\ PipelineIdle /\ GeomIdle /\ ComposeIdle /\ ConcIdle /\ ApiIdle
    /\ t_out = None
    /\ \/ /\ t_pc = "style"
          /\ \E h \in StyleHeights, icd \in ImageColorDebug, fm \in FontSizeMethods :
                \/ \E cand \in StyleCandidates(h) :
                      t_in = [image |-> StyleImage(icd[1], h), candidate |-> cand,
                              color_method |-> icd[2], font_size_method |-> fm,
                              debug |-> icd[3]]
                \/ \E cand \in BrokenCandidates(h) :
                      t_in = [image |-> StyleImage(icd[1], h), candidate |-> cand,
                              color_method |-> icd[2], font_size_method |-> fm,
                              debug |-> icd[3]]
                \/ \E th \in TallHeights : \E cand \in TallCandidates(th) :
                      t_in = [image |-> StyleImage("flat", th), candidate |-> cand,
                              color_method |-> "median", font_size_method |-> fm,
                              debug |-> TRUE]
       \/ /\ t_pc = "weight"
          /\ \E m \in WeightMasks : t_in = [mask |-> m]

\* estimate_text_style(image, candidate, color_method, font_size_method, debug)
EstimateTextStyle ==
    /\ t_pc = "style"
    /\ t_out' \in estimate_text_style(t_in.image, t_in.candidate, t_in.color_method,
                                      t_in.font_size_method, t_in.debug)
    /\ t_pc' = "style_done"
    /\ UNCHANGED <<t_in, pipelineVars, geomVars, composeVars, concVars, apiVars>>

\* estimate_font_weight(image, mask)
EstimateFontWeight ==
    /\ t_pc = "weight"
    /\ t_out' = estimate_font_weight(None, t_in.mask)
    /\ t_pc' = "weight_done"
    /\ UNCHANGED <<t_in, pipelineVars, geomVars, composeVars, concVars, apiVars>>

StyleNext == EstimateTextStyle \/ EstimateFontWeight

StyleSpec == StyleInit /\ [][StyleNext]_vars

\* ------------------------------------------------------------------------
\* Properties of text_style.py (StyleSpec)
\* ------------------------------------------------------------------------
StyleReturned == t_pc = "style_done" /\ t_out.exc = "none"
StyleText == IF "text" \in DOMAIN t_in.candidate THEN t_in.candidate.text ELSE <<>>
StyleConfidence ==
    IF "confidence" \in DOMAIN t_in.candidate THEN t_in.candidate.confidence ELSE 100
StyleMask == rasterize_quad(t_in.candidate.quad, t_in.image.h, t_in.image.w)

\* C13: for every bbox height and every font_size_method, the fontSize
\* returned by estimate_text_style is an integer from 12 to 500.
C13_FontSizeInRange ==
    StyleReturned => t_out.style.fontSize \in 12..500

\* the area of the tight bounding rectangle of the pixels set in m
TightRectArea(m) ==
    (SetMax({p[1] : p \in NonZero(m)}) - SetMin({p[1] : p \in NonZero(m)}) + 1)
    * (SetMax({p[2] : p \in NonZero(m)}) - SetMin({p[2] : p \in NonZero(m)}) + 1)

\* the weight the fill ratio n / area stands for
WeightOfRatio(n, area) ==
    IF 2 * n > area THEN 700 ELSE IF 20 * n > 7 * area THEN 600 ELSE 400

\* C14: estimate_font_weight returns 400 for a mask with no pixel set, and
\* otherwise 700, 600 or 400 as the ratio of the set pixels to the area of
\* their tight bounding rectangle is above 0.5, above 0.35, or not; a fully
\* set rectangle gives 700 and a rectangle set to 10% gives 400.
C14_WeightByFillRatio ==
    t_pc = "weight_done" =>
        LET m == t_in.mask
            n == Cardinality(NonZero(m))
        IN  /\ t_out \in {400, 600, 700}
            /\ n = 0 => t_out = 400
            /\ n > 0 => t_out = WeightOfRatio(n, TightRectArea(m))
            /\ (n > 0 /\ n = TightRectArea(m)) => t_out = 700
            /\ (n > 0 /\ 10 * n = TightRectArea(m)) => t_out = 400

\* a mask whose ratio lies between 0.35 and 0.5 and gets 600
C14_Witness ==
    /\ t_pc = "weight_done"
    /\ t_out = 600
    /\ 2 * Cardinality(NonZero(t_in.mask)) < TightRectArea(t_in.mask)

\* C15: with font_size_method = auto, when the row projection cannot be
\* measured (bbox height 0, no extent of the bbox inside the mask, or no mask
\* pixel inside the bbox), fontSize is the value of
\* estimate_font_size_adaptive(bbox, text, confidence).
C15_AutoFallsBackToAdaptive ==
    (StyleReturned /\ t_in.font_size_method = "auto"
        /\ ~PixelFeasible(StyleMask, t_in.candidate.bbox))
    => t_out.style.fontSize =
          estimate_font_size_adaptive(t_in.candidate.bbox, StyleText, StyleConfidence)

\* ========================================================================
\* generate_patch and estimate_text_style called side by side (ConcSpec)
\*
\* One call of generate_patch (the actions of Spec) runs beside calls of
\* estimate_text_style made one after another, on the same candidate dict.
\* A step of either is a block of statements; the steps interleave freely.
\* estimate_text_style holds the candidate's bbox dict by reference and reads
\* it when the font size is estimated.
\* ========================================================================
MaxCalls == 2      \* estimate_text_style is called up to MaxCalls times in a row

ConcImageInputs ==
    {[kind |-> "image", pattern |-> "white", w |-> 3, h |-> 2],
     [kind |-> "image", pattern |-> "text", w |-> 7, h |-> 6]}

ConcCandidates ==
    {[quad |-> Rect(2, 1, 4, 2)],
     [quad |-> Rect(2, 1, 4, 2), bbox |-> BBox(0, 0, 7, 6)],
     [quad |-> Rect(0, 1, 1, 2), bbox |-> BBox(0, 0, 2, 30),
      text |-> <<"a", "b">>, confidence |-> 80],
     [bbox |-> BBox(0, 0, 7, 6)]}

\* image pattern, color_method, debug of the estimate_text_style calls
ConcImageColorDebug == {<<"flat", "kmeans", FALSE>>, <<"split", "mean", TRUE>>}

ConcInit ==
    /\ image_bytes \in ConcImageInputs
    /\ candidate \in ConcCandidates
    /\ padding_px \in (-1)..MaxPad
    /\ mode \in {"auto", "inpaint"}
    /\ pc = "load"
    /\ image_bgr = None /\ bbox_orig = None /\ bbox_padded = None
    /\ bbox_final = None /\ mask = None /\ roi = None /\ roi_mask = None
    /\ bg_model = "unset" /\ filled_roi = None /\ result_image = None
    /\ debug_info = [mode |-> mode, algo_version |-> "v1", padding_px |-> padding_px]
    /\ result = None /\ escaped = None
    /\ calls = <<>>
    /\ GeomIdle /\ ComposeIdle /\ StyleIdle /\ ApiIdle
    /\ \E icd \in ConcImageColorDebug, fm \in {"auto", "adaptive"} :
          /\ s_image = StyleImage(icd[1], 4)
          /\ s_args = [color_method |-> icd[2], font_size_method |-> fm, debug |-> icd[3]]
    /\ s_pc = "start"
    /\ s_local = [started_at |-> "none"]
    /\ s_out = None
    /\ s_round = 1
    /\ s_given = [image |-> s_image, candidate |-> candidate]

concShared == <<pipelineVars, geomVars, composeVars, styleVars, apiVars>>

\* lines 393-398: the candidate is read, the quad rasterised
StyleStart ==
    /\ s_pc = "start"
    /\ IF "quad" \notin DOMAIN candidate \/ "bbox" \notin DOMAIN candidate
       THEN /\ s_out' = [exc |-> "KeyError", style |-> None,
                         started_at |-> pc, returned_at |-> pc]
            /\ s_pc' = "done"
            /\ UNCHANGED s_local
       ELSE /\ s_local' = [started_at |-> pc,
                           text |-> CandidateText(candidate),
                           confidence |-> CandidateConfidence(candidate),
                           mask |-> rasterize_quad(candidate.quad, s_image.h, s_image.w)]
            /\ s_pc' = "color"
            /\ UNCHANGED s_out
    /\ UNCHANGED <<s_image, s_args, s_round, s_given, concShared>>

\* lines 401-402: estimate_text_color
StyleColor ==
    /\ s_pc = "color"
    /\ \E c \in estimate_text_color(s_image, s_local.mask, s_args.color_method) :
          s_local' = [color |-> c] @@ s_local
    /\ s_pc' = "size"
    /\ UNCHANGED <<s_image, s_args, s_out, s_round, s_given, concShared>>

\* lines 404-423: the font size, from the bbox dict as it is now
StyleFontSize ==
    /\ s_pc = "size"
    /\ LET fs == FontSizeStep(s_image, s_local.mask, candidate.bbox, s_local.text,
                              s_local.confidence, s_args.font_size_method)
       IN  IF fs.exc # "none"
           THEN /\ s_out' = [exc |-> fs.exc, style |-> None,
                             started_at |-> s_local.started_at, returned_at |-> pc]
                /\ s_pc' = "done"
                /\ UNCHANGED s_local
           ELSE /\ s_local' = [fs |-> fs] @@ s_local
                /\ s_pc' = "weight"
                /\ UNCHANGED s_out
    /\ UNCHANGED <<s_image, s_args, s_round, s_given, concShared>>

\* lines 425-448: estimate_font_weight, the style dict, return
StyleReturn ==
    /\ s_pc = "weight"
    /\ s_out' = [exc |-> "none",
                 style |-> StyleDict(s_local.color, s_local.fs,
                                     estimate_font_weight(s_image, s_local.mask),
                                     s_local.mask, s_local.text,
                                     s_args.color_method, s_args.debug),
                 started_at |-> s_local.started_at, returned_at |-> pc]
    /\ s_pc' = "done"
    /\ UNCHANGED <<s_image, s_args, s_local, s_round, s_given, concShared>>

\* the next call of estimate_text_style, with the same objects as arguments
StyleCallAgain ==
    /\ s_pc = "done"
    /\ s_round < MaxCalls
    /\ s_round' = s_round + 1
    /\ s_given' = [image |-> s_image, candidate |-> candidate]
    /\ s_local' = [started_at |-> "none"]
    /\ s_out' = None
    /\ s_pc' = "start"
    /\ UNCHANGED <<s_image, s_args, concShared>>

ConcNext ==
    \/ generate_patch
    \/ StyleStart \/ StyleColor \/ StyleFontSize \/ StyleReturn \/ StyleCallAgain

ConcSpec == ConcInit /\ [][ConcNext]_vars

\* ------------------------------------------------------------------------
\* Properties of the calls side by side (ConcSpec)
\* ------------------------------------------------------------------------
\* the call of estimate_text_style has returned or raised
StyleCallDone == s_pc = "done"

\* its outcome is one that the call alone has on the arguments it was given
SameAsAlone ==
    StyleCallDone =>
        [exc |-> s_out.exc, style |-> s_out.style]
            \in estimate_text_style(s_given.image, s_given.candidate, s_args.color_method,
                                    s_args.font_size_method, s_args.debug)

\* the bbox generate_patch returns is the one computed from the candidate as
\* it was given
PatchBBoxAsGiven ==
    Succeeded =>
        LET c    == s_given.candidate
            orig == IF "bbox" \in DOMAIN c THEN c.bbox ELSE quad_to_bbox(c.quad)
        IN  /\ result.debug_info.bbox_orig = orig
            /\ result.bbox = clip_bbox_to_image(expand_bbox(orig, padding_px),
                                                image_bgr.w, image_bgr.h)

\* no step writes the arguments of either call; a step of one call leaves
\* the variables of the other alone
ArgumentsKept ==
    /\ candidate' = candidate
    /\ image_bytes' = image_bytes
    /\ s_image' = s_image
    /\ (s_pc' # s_pc \/ s_local' # s_local \/ s_out' # s_out)
          => UNCHANGED <<pc, localVars, result, escaped, calls>>
    /\ (pc' # pc) => UNCHANGED <<s_pc, s_local, s_out, s_round, s_given>>

MaxPages  == 2     \* at most MaxPages pages are created
MaxAssets == 2     \* at most MaxAssets objects are stored

\* ---- strings whose characters a handler or a test looks at
Chars(s) ==
    CASE s = "" -> <<>>
      [] s = "image/" -> <<"i","m","a","g","e","/">>
      [] s = "image/png" -> <<"i","m","a","g","e","/","p","n","g">>
      [] s = "image/jpeg" -> <<"i","m","a","g","e","/","j","p","e","g">>
      [] s = "image/jpg" -> <<"i","m","a","g","e","/","j","p","g">>
      [] s = "image/gif" -> <<"i","m","a","g","e","/","g","i","f">>
      [] s = "text/plain" -> <<"t","e","x","t","/","p","l","a","i","n">>
      [] s = "image" -> <<"i","m","a","g","e">>
      [] s = "not found" -> <<"n","o","t"," ","f","o","u","n","d">>
      [] s = "Page not found: " ->
            <<"P","a","g","e"," ","n","o","t"," ","f","o","u","n","d",":"," ">>
      [] s = "Unsupported OCR provider: " ->
            <<"U","n","s","u","p","p","o","r","t","e","d"," ","O","C","R"," ",
              "p","r","o","v","i","d","e","r",":"," ">>
      [] s = "Failed to analyze page" ->
            <<"F","a","i","l","e","d"," ","t","o"," ","a","n","a","l","y","z","e",
              " ","p","a","g","e">>

\* str.startswith
startswith(s, prefix) ==
    LET cs == Chars(s)
        ps == Chars(prefix)
    IN  /\ Len(ps) <= Len(cs)
        /\ \A i \in 1 .. Len(ps) : cs[i] = ps[i]

\* the  in  operator on strings
contains(s, part) ==
    LET cs == Chars(s)
        ps == Chars(part)
    IN  \E k \in 0 .. (Len(cs) - Len(ps)) :
            \A i \in 1 .. Len(ps) : cs[k + i] = ps[i]

\* ---- candidate ids: [pre, n] stands for the string  <pre>_<n as 3 digits>
CandId(pre, n) == [pre |-> pre, n |-> n]
\* the id the provider gives to the item at position i (counted from 1)
\* that carries none
AutoId(i) == CandId("c", i)

\* ---- Page and Candidate rows
PageRow(id, image_url, width, height) ==
    [id |-> id, image_url |-> image_url, width |-> width, height |-> height]
CandidateRow(id, page_id, text) == [id |-> id, page_id |-> page_id, text |-> text]
\* Candidate.to_dict; confidence, quad, bbox and angle_deg travel with text
to_dict(row) == [id |-> row.id, text |-> row.text]

\* db.query(Page).filter(Page.id == page_id).first() without its filter
page_query_unfiltered(pages, page_id) ==
    IF pages = {} THEN None
    ELSE CHOOSE r \in pages : \A q \in pages : r.id <= q.id

\* db.query(Page).filter(Page.id == page_id).first()
page_query(pages, page_id) ==
    IF \E r \in pages : r.id = page_id
    THEN CHOOSE r \in pages : r.id = page_id
    ELSE None

\* ---- the mock directory as MockOCRProvider.analyze finds it: the file
\*      page_{page_id}.json of the analysed page and default.json.  A file
\*      is absent, or does not load (json.load or OCRCandidate(**item)
\*      raises), or holds a list of items.
MockFile(exists, loads, items) == [exists |-> exists, loads |-> loads, items |-> items]
NoFile == MockFile(FALSE, FALSE, <<>>)
BrokenFile == MockFile(TRUE, FALSE, <<>>)
MockItem(id, text) == [id |-> id, text |-> text]

MockOCRProvider_analyze(mock_dir, page_id) ==
    LET mock_file == IF mock_dir.page_file.exists THEN mock_dir.page_file
                     ELSE IF mock_dir.default_file.exists THEN mock_dir.default_file
                     ELSE NoFile
        items == mock_file.items
    IN  IF ~mock_file.exists \/ ~mock_file.loads THEN <<>>
        ELSE [i \in 1 .. Len(items) |->
                 [id |-> IF items[i].id = None THEN AutoId(i) ELSE items[i].id,
                  text |-> items[i].text]]

\* the rows  db.query(Candidate).filter(...).delete()  removes when the
\* filter is left out
old_candidates_of_any_page(candidates, page_id) == candidates

\* the rows  db.query(Candidate).filter(Candidate.page_id == page_id).delete()
\* removes
old_candidates(candidates, page_id) == {r \in candidates : r.page_id = page_id}

\* the response of a handler: status, detail of the HTTPException ("" on
\* success), body (None on an error)
Response(status, detail, body) == [status |-> status, detail |-> detail, body |-> body]

\* the candidates table after a failed commit when  db.rollback()  is left out
\* and the session is closed with the DELETE applied
rollback_missing(candidates, kept) == kept

\* the candidates table after  db.rollback(): the DELETE of the transaction is
\* undone and no INSERT is kept
rollback(candidates, kept) == candidates

\* analyze_page: the response, the candidates table after the request, and
\* whether the OCR provider was called
analyze_page(pages, candidates, settings, page_id, provider, mock_dir) ==
    LET page == page_query(pages, page_id)
        ocr_candidates == MockOCRProvider_analyze(mock_dir, page_id)
        kept == candidates \ old_candidates(candidates, page_id)
        added == [i \in DOMAIN ocr_candidates |->
                     CandidateRow(ocr_candidates[i].id, page_id, ocr_candidates[i].text)]
        \* candidates.id is the primary key: the INSERTs of db.commit() fail
        \* on an id that a remaining row carries or that comes twice
        integrity_error ==
            \/ \E i \in DOMAIN added : \E r \in kept : r.id = added[i].id
            \/ \E i, j \in DOMAIN added : i # j /\ added[i].id = added[j].id
    IN  IF page = None
        THEN [resp |-> Response(404, "Page not found: ", None),
              candidates |-> candidates, ocr_called |-> FALSE]
        ELSE IF ~(provider = "mock" \/ settings.ocr_provider = "mock")
        THEN [resp |-> Response(400, "Unsupported OCR provider: ", None),
              candidates |-> candidates, ocr_called |-> FALSE]
        ELSE IF integrity_error
        THEN [resp |-> Response(500, "Failed to analyze page", None),
              candidates |-> rollback(candidates, kept), ocr_called |-> TRUE]
        ELSE [resp |-> Response(200, "",
                          [page_id |-> page_id, width |-> page.width,
                           height |-> page.height,
                           candidates |-> [i \in DOMAIN added |-> to_dict(added[i])]]),
              candidates |-> kept \cup {added[i] : i \in DOMAIN added},
              ocr_called |-> TRUE]

\* get_candidates: the response.  The query carries no ORDER BY, so the
\* candidates of the body are a set.
get_candidates(pages, candidates, page_id) ==
    LET page == page_query(pages, page_id)
    IN  IF page = None
        THEN Response(404, "Page not found: ", None)
        ELSE Response(200, "",
                      [page_id |-> page_id, width |-> page.width,
                       height |-> page.height,
                       candidates |-> {to_dict(r) : r \in {c \in candidates : c.page_id = page_id}}])

\* ---- upload_asset (api/assets.py)
\* the uploaded bytes: whether PIL opens them, the size it reads, and the
\* SHA-256 of the bytes
FileContents(readable, width, height, sha256) ==
    [readable |-> readable, width |-> width, height |-> height, sha256 |-> sha256]
AllowedTypes == {"image/png", "image/jpeg", "image/jpg"}
\* an object of the bucket: assets/{asset_id}.{extension}
StoredObject(asset_id, extension, content_type, sha256) ==
    [asset_id |-> asset_id, extension |-> extension,
     content_type |-> content_type, sha256 |-> sha256]

\* upload_asset with put_object moved in front of get_image_dimensions
upload_asset_put_first(objects, content_type, contents, asset_id, put_ok) ==
    LET extension == IF content_type = "image/png" THEN "png" ELSE "jpg"
        object == StoredObject(asset_id, extension, content_type, contents.sha256)
    IN  IF content_type = "" \/ ~startswith(content_type, "image/")
        THEN [resp |-> Response(400, "File must be an image", None), objects |-> objects]
        ELSE IF content_type \notin AllowedTypes
        THEN [resp |-> Response(400, "Unsupported image type. Allowed types: ", None),
              objects |-> objects]
        ELSE IF ~put_ok
        THEN [resp |-> Response(500, "Failed to upload file to storage", None),
              objects |-> objects]
        ELSE IF ~contents.readable
        THEN [resp |-> Response(400, "Invalid image file", None),
              objects |-> objects \cup {object}]
        ELSE [resp |-> Response(200, "",
                          [asset_id |-> asset_id, image_url |-> object,
                           width |-> contents.width, height |-> contents.height,
                           sha256 |-> contents.sha256]),
              objects |-> objects \cup {object}]

\* upload_asset: the response and the objects of the bucket after the
\* request.  content_type "" is a missing or empty Content-Type; put_ok
\* tells whether minio_client.put_object returns.
upload_asset(objects, content_type, contents, asset_id, put_ok) ==
    LET extension == IF content_type = "image/png" THEN "png" ELSE "jpg"
        object == StoredObject(asset_id, extension, content_type, contents.sha256)
    IN  IF content_type = "" \/ ~startswith(content_type, "image/")
        THEN [resp |-> Response(400, "File must be an image", None), objects |-> objects]
        ELSE IF content_type \notin AllowedTypes
        THEN [resp |-> Response(400, "Unsupported image type. Allowed types: ", None),
              objects |-> objects]
        ELSE IF ~contents.readable
        THEN [resp |-> Response(400, "Invalid image file", None), objects |-> objects]
        ELSE IF ~put_ok
        THEN [resp |-> Response(500, "Failed to upload file to storage", None),
              objects |-> objects]
        ELSE [resp |-> Response(200, "",
                          [asset_id |-> asset_id, image_url |-> object,
                           width |-> contents.width, height |-> contents.height,
                           sha256 |-> contents.sha256]),
              objects |-> objects \cup {object}]

\* ---- the requests ApiSpec sends
PageIds == 1 .. MaxPages
\* 0 is an id that  page_{uuid4().hex[:12]}  never produced
RequestedPageIds == 0 .. MaxPages
PageSizes == {<<100, 50>>, <<200, 80>>}
Providers == {"mock", "azure"}
ItemLists(page_id) ==
    { <<>>,
      <<MockItem(None, "A")>>,
      <<MockItem(CandId("c", 1), "B"), MockItem(CandId("c", 2), "C")>>,
      <<MockItem(CandId("c", 2), "A"), MockItem(CandId("c", 2), "B")>>,
      <<MockItem(CandId("p", page_id), "A")>> }
MockFiles(page_id) ==
    {NoFile, BrokenFile} \cup {MockFile(TRUE, TRUE, l) : l \in ItemLists(page_id)}
MockDirs(page_id) ==
    [page_file : {NoFile, MockFile(TRUE, TRUE, <<MockItem(CandId("p", page_id), "A")>>)},
     default_file : MockFiles(page_id)]
ContentTypes == {"", "text/plain", "image", "image/gif", "image/png", "image/jpeg", "image/jpg"}
Uploads == {FileContents(TRUE, 100, 50, "sha_a"), FileContents(FALSE, 0, 0, "sha_b")}
NeverAnalysed == [seen |-> FALSE, replaced |-> FALSE, candidates |-> <<>>]

ApiInit ==
    /\ PipelineIdle /\ GeomIdle /\ ComposeIdle /\ StyleIdle /\ ConcIdle
    /\ db_pages = {} /\ db_candidates = {} /\ storage_objects = {}
    /\ a_settings \in [ocr_provider : Providers]
    /\ a_resp = [op |-> "none"]
    /\ a_last = [p \in PageIds |-> NeverAnalysed]
    /\ db_patches = {} /\ db_projects = {} /\ p_last = <<>>
    /\ ExportIdle

apiShared == <<pipelineVars, geomVars, composeVars, styleVars, concVars,
               tableVars, exportVars>>

\* POST /v1/pages
CreatePage ==
    \E page_id \in {Cardinality(db_pages) + 1} \cap PageIds, size \in PageSizes :
        /\ db_pages' = db_pages \cup {PageRow(page_id, "url", size[1], size[2])}
        /\ a_resp' = [op |-> "create_page",
                      resp |-> Response(200, "", [page_id |-> page_id])]
        /\ UNCHANGED <<db_candidates, storage_objects, a_settings, a_last, apiShared>>

\* POST /v1/pages/{page_id}/analyze
AnalyzePage ==
    \E page_id \in RequestedPageIds, provider \in Providers :
      \E mock_dir \in MockDirs(page_id) :
        LET out == analyze_page(db_pages, db_candidates, a_settings,
                                page_id, provider, mock_dir)
        IN  /\ db_candidates' = out.candidates
            /\ a_resp' = [op |-> "analyze", page_id |-> page_id,
                          provider |-> provider, resp |-> out.resp,
                          ocr_called |-> out.ocr_called]
            /\ a_last' = IF out.resp.status = 200
                         THEN [a_last EXCEPT ![page_id] =
                                  [seen |-> TRUE,
                                   \* rows of the page went and other rows came
                                   replaced |->
                                       LET old == old_candidates(db_candidates, page_id)
                                       IN  old # {} /\ old \cap out.candidates = {}
                                                    /\ out.candidates # db_candidates \ old,
                                   candidates |-> out.resp.body.candidates]]
                         ELSE a_last
            /\ UNCHANGED <<db_pages, storage_objects, a_settings, apiShared>>

\* GET /v1/pages/{page_id}/candidates
GetCandidates ==
    \E page_id \in RequestedPageIds :
        /\ a_resp' = [op |-> "get_candidates", page_id |-> page_id,
                      resp |-> get_candidates(db_pages, db_candidates, page_id),
                      ocr_called |-> FALSE]
        /\ UNCHANGED <<db_pages, db_candidates, storage_objects, a_settings,
                       a_last, apiShared>>

\* POST /v1/assets/upload
UploadAsset ==
    \E content_type \in ContentTypes, contents \in Uploads, put_ok \in BOOLEAN :
      \E asset_id \in {Cardinality(storage_objects) + 1} \cap (1 .. MaxAssets) :
        LET out == upload_asset(storage_objects, content_type, contents,
                                asset_id, put_ok)
        IN  /\ storage_objects' = out.objects
            /\ a_resp' = [op |-> "upload", content_type |-> content_type,
                          contents |-> contents, resp |-> out.resp]
            /\ UNCHANGED <<db_pages, db_candidates, a_settings, a_last, apiShared>>

ApiNext == CreatePage \/ AnalyzePage \/ GetCandidates

ApiSpec == ApiInit /\ [][ApiNext]_vars

AssetNext == UploadAsset

AssetSpec == ApiInit /\ [][AssetNext]_vars

\* ---- generate_patch_for_candidate (api/pages.py)
MaxPatches == 2

\* Patch row; debug_info travels with bbox
PatchRow(id, page_id, candidate_id, bbox, image_url) ==
    [id |-> id, page_id |-> page_id, candidate_id |-> candidate_id,
     bbox |-> bbox, image_url |-> image_url]
\* Patch.to_dict
patch_to_dict(row) == [id |-> row.id, bbox |-> row.bbox, image_url |-> row.image_url]

\* db.query(Candidate).filter(Candidate.id == ..., Candidate.page_id == ...).first()
candidate_query(candidates, candidate_id, page_id) ==
    IF \E r \in candidates : r.id = candidate_id /\ r.page_id = page_id
    THEN CHOOSE r \in candidates : r.id = candidate_id /\ r.page_id = page_id
    ELSE None

\* the object  patches/{patch_id}.png  of the bucket
PatchObject(patch_id) == [folder |-> "patches", patch_id |-> patch_id]

\* put_object whose exception is logged and not raised again
put_object_error_swallowed(objects, object, put_ok) ==
    [raised |-> FALSE,
     objects |-> IF put_ok THEN objects \cup {object} ELSE objects]

\* minio_client.put_object inside its try: the object is in the bucket, or
\* the exception becomes the HTTPException of the except clause
put_object(objects, object, put_ok) ==
    [raised |-> ~put_ok,
     objects |-> IF put_ok THEN objects \cup {object} ELSE objects]

\* generate_patch_for_candidate: the response, the patches table and the
\* bucket after the request, and the calls made in their order.
\* call holds the path and body parameters and what the calls of the handler
\* gave: download is what client.get gave ("ok", "status_404", "raises"),
\* result the PatchGenerationResult of generate_patch, patch_id the drawn id.
generate_patch_for_candidate(pages, candidates, patches, objects, call) ==
    LET page_id      == call.page_id
        candidate_id == call.candidate_id
        download     == call.download
        res          == call.result
        patch_id     == call.patch_id
        put_ok       == call.put_ok
        commit_ok    == call.commit_ok
        page      == page_query(pages, page_id)
        cand      == candidate_query(candidates, candidate_id, page_id)
        object    == PatchObject(patch_id)
        put       == put_object(objects, object, put_ok)
        record    == PatchRow(patch_id, page_id, candidate_id, res.bbox, object)
        Out(resp, t, o, c) == [resp |-> resp, patches |-> t, objects |-> o, calls |-> c]
    IN  IF page = None
        THEN Out(Response(404, "Page not found: ", None), patches, objects, <<>>)
        ELSE IF cand = None
        THEN Out(Response(404, "Candidate not found: ", None), patches, objects, <<>>)
        ELSE IF download = "raises"
        THEN Out(Response(500, "Failed to generate patch", None), patches, objects,
                 <<"get">>)
        ELSE IF download # "ok"
        THEN Out(Response(500, "Failed to download image: ", None), patches, objects,
                 <<"get">>)
        ELSE IF ~res.success
        THEN Out(Response(500, "Patch generation failed: ", None), patches, objects,
                 <<"get", "generate_patch">>)
        ELSE IF put.raised
        THEN Out(Response(500, "Failed to upload patch to storage", None),
                 patches, put.objects, <<"get", "generate_patch", "put_object">>)
        ELSE IF ~commit_ok
        THEN \* db.rollback(): the row is not stored, the object stays
             Out(Response(500, "Failed to generate patch", None), patches, put.objects,
                 <<"get", "generate_patch", "put_object", "commit">>)
        ELSE Out(Response(200, "", [patch |-> patch_to_dict(record)]),
                 patches \cup {record}, put.objects,
                 <<"get", "generate_patch", "put_object", "commit">>)

\* ---- inputs of PatchSpec
\* the tables as create_page and analyze_page leave them: no page; two
\* pages, the first analysed from a default.json with c_001 and c_002, the
\* second from its own file
PatchDatabases ==
    { [pages |-> {}, candidates |-> {},
       last |-> [p \in PageIds |-> NeverAnalysed]],
      [pages |-> {PageRow(1, "url", 100, 50), PageRow(2, "url", 200, 80)},
       candidates |-> {CandidateRow(CandId("c", 1), 1, "B"),
                       CandidateRow(CandId("c", 2), 1, "C"),
                       CandidateRow(CandId("p", 2), 2, "A")},
       last |-> [p \in PageIds |->
                   IF p = 1
                   THEN [seen |-> TRUE, replaced |-> FALSE,
                         candidates |-> <<to_dict(CandidateRow(CandId("c", 1), 1, "B")),
                                          to_dict(CandidateRow(CandId("c", 2), 1, "C"))>>]
                   ELSE IF p = 2
                   THEN [seen |-> TRUE, replaced |-> FALSE,
                         candidates |-> <<to_dict(CandidateRow(CandId("p", 2), 2, "A"))>>]
                   ELSE NeverAnalysed]] }
RequestedCandidateIds == {CandId("c", 1), CandId("p", 2), CandId("c", 9)}
Downloads == {"ok", "status_404", "raises"}
\* what generate_patch returns: success with the final bbox, or a failure
PipelineResults ==
    { [success |-> TRUE,  bbox |-> [x |-> 2, y |-> 1, w |-> 30, h |-> 12], error |-> ""],
      [success |-> TRUE,  bbox |-> [x |-> 0, y |-> 0, w |-> 8, h |-> 8], error |-> ""],
      [success |-> FALSE, bbox |-> None, error |-> "Failed to decode image"] }

PatchInit ==
    /\ PipelineIdle /\ GeomIdle /\ ComposeIdle /\ StyleIdle /\ ConcIdle
    /\ \E d \in PatchDatabases :
          /\ db_pages = d.pages
          /\ db_candidates = d.candidates
          /\ a_last = d.last
    /\ storage_objects = {}
    /\ a_settings = [ocr_provider |-> "mock"]
    /\ a_resp = [op |-> "none"]
    /\ db_patches = {} /\ db_projects = {} /\ p_last = <<>>
    /\ ExportIdle

\* POST /v1/pages/{page_id}/patch
GeneratePatchForCandidate ==
    \E page_id \in RequestedPageIds, candidate_id \in RequestedCandidateIds,
       download \in Downloads, res \in PipelineResults,
       put_ok \in BOOLEAN, commit_ok \in BOOLEAN :
      \E patch_id \in {Cardinality(storage_objects) + 1} \cap (1 .. MaxPatches) :
        LET out == generate_patch_for_candidate(db_pages, db_candidates, db_patches,
                       storage_objects,
                       [page_id |-> page_id, candidate_id |-> candidate_id,
                        download |-> download, result |-> res, patch_id |-> patch_id,
                        put_ok |-> put_ok, commit_ok |-> commit_ok])
        IN  /\ db_patches' = out.patches
            /\ storage_objects' = out.objects
            /\ a_resp' = [op |-> "patch", page_id |-> page_id,
                          candidate_id |-> candidate_id, download |-> download,
                          result |-> res, put_ok |-> put_ok,
                          resp |-> out.resp, calls |-> out.calls]
            /\ UNCHANGED <<db_pages, db_candidates, a_settings, a_last, db_projects, p_last,
                           pipelineVars, geomVars, composeVars, styleVars, concVars,
                           exportVars>>

PatchNext == GeneratePatchForCandidate

PatchSpec == PatchInit /\ [][PatchNext]_vars

\* ---- the project handlers (api/projects.py)
MaxProjects == 2

\* Project row; created_at and updated_at are left out
ProjectRow(id, page_data, layers) == [id |-> id, page_data |-> page_data, layers |-> layers]
\* Project.to_dict
project_to_dict(row) == [project_id |-> row.id, page |-> row.page_data, layers |-> row.layers]

\* db.query(Project).filter(Project.id == project_id).first()
project_query(projects, project_id) ==
    IF \E r \in projects : r.id = project_id
    THEN CHOOSE r \in projects : r.id = project_id
    ELSE None

\* the outcome of a project handler: the response, the projects table and the
\* bucket after the request
ProjectOut(resp, projects, objects) ==
    [resp |-> resp, projects |-> projects, objects |-> objects]

\* create_project
create_project(projects, objects, project_id, page, layers, commit_ok) ==
    LET project == ProjectRow(project_id, page, layers)
    IN  IF ~commit_ok
        THEN ProjectOut(Response(500, "Failed to create project", None), projects, objects)
        ELSE ProjectOut(Response(200, "", project_to_dict(project)),
                        projects \cup {project}, objects)

\* get_project
get_project(projects, objects, project_id) ==
    LET project == project_query(projects, project_id)
    IN  IF project = None
        THEN ProjectOut(Response(404, "Project not found: ", None), projects, objects)
        ELSE ProjectOut(Response(200, "", project_to_dict(project)), projects, objects)

\* update_project that stores the request under an id it does not find
update_project_upsert(projects, objects, project_id, page, layers, commit_ok) ==
    LET updated == ProjectRow(project_id, page, layers)
    IN  IF ~commit_ok
        THEN ProjectOut(Response(500, "Failed to update project", None), projects, objects)
        ELSE ProjectOut(Response(200, "", project_to_dict(updated)),
                        {r \in projects : r.id # project_id} \cup {updated}, objects)

\* update_project
update_project(projects, objects, project_id, page, layers, commit_ok) ==
    LET project == project_query(projects, project_id)
        updated == ProjectRow(project_id, page, layers)
    IN  IF project = None
        THEN ProjectOut(Response(404, "Project not found: ", None), projects, objects)
        ELSE IF ~commit_ok
        THEN ProjectOut(Response(500, "Failed to update project", None), projects, objects)
        ELSE ProjectOut(Response(200, "", project_to_dict(updated)),
                        (projects \ {project}) \cup {updated}, objects)

\* delete_project
delete_project(projects, objects, project_id, commit_ok) ==
    LET project == project_query(projects, project_id)
    IN  IF project = None
        THEN ProjectOut(Response(404, "Project not found: ", None), projects, objects)
        ELSE IF ~commit_ok
        THEN ProjectOut(Response(500, "Failed to delete project", None), projects, objects)
        ELSE ProjectOut(Response(200, "", [message |-> "deleted successfully"]),
                        projects \ {project}, objects)

\* the object  exports/{export_id}.png  of the bucket
ExportObject(export_id) == [folder |-> "exports", export_id |-> export_id]

\* export_project_png; render_ok tells whether export_project_to_png returned
\* the PNG bytes, put_ok whether put_object stored them
export_project_png(projects, objects, project_id, render_ok, export_id, put_ok) ==
    LET project == project_query(projects, project_id)
        object  == ExportObject(export_id)
    IN  IF project = None
        THEN ProjectOut(Response(404, "Project not found: ", None), projects, objects)
        ELSE IF ~render_ok
        THEN ProjectOut(Response(500, "Failed to export project", None), projects, objects)
        ELSE IF ~put_ok
        THEN ProjectOut(Response(500, "Failed to upload export to storage", None),
                        projects, objects)
        ELSE ProjectOut(Response(200, "", [export_url |-> object]),
                        projects, objects \cup {object})

\* ---- inputs of ProjectSpec
\* 0 is an id that  proj_{uuid4().hex[:12]}  never produced
RequestedProjectIds == 0 .. MaxProjects
ProjectPages ==
    {[page_id |-> 1, image_url |-> "url", width |-> 100, height |-> 50],
     [page_id |-> 2, image_url |-> "url", width |-> 200, height |-> 80]}
ProjectLayers == {<<>>, <<[id |-> "layer_1", kind |-> "text"]>>}
\* the page and layers of a create or update request
ProjectBodies ==
    {b \in [page : ProjectPages, layers : ProjectLayers] :
        b.page.page_id = 1 => b.layers = <<>>}

ProjectInit ==
    /\ PipelineIdle /\ GeomIdle /\ ComposeIdle /\ StyleIdle /\ ConcIdle
    /\ db_pages = {} /\ db_candidates = {} /\ storage_objects = {}
    /\ a_settings = [ocr_provider |-> "mock"]
    /\ a_resp = [op |-> "none"]
    /\ a_last = [p \in PageIds |-> NeverAnalysed]
    /\ db_patches = {} /\ db_projects = {} /\ p_last = <<>>
    /\ ExportIdle

projectShared == <<pipelineVars, geomVars, composeVars, styleVars, concVars, exportVars,
                   db_pages, db_candidates, a_settings, a_last, db_patches>>

\* what the request leaves of  p_last: a created project is appended, an
\* updated one takes the request's page and layers, a deleted one is marked
Remembered(op, project_id, page, layers, resp) ==
    IF resp.status # 200 THEN p_last
    ELSE IF op = "create"
    THEN Append(p_last, [alive |-> TRUE, page |-> page, layers |-> layers])
    ELSE IF project_id \notin DOMAIN p_last THEN p_last
    ELSE IF op = "update"
    THEN [p_last EXCEPT ![project_id] = [alive |-> TRUE, page |-> page, layers |-> layers]]
    ELSE IF op = "delete"
    THEN [p_last EXCEPT ![project_id].alive = FALSE]
    ELSE p_last

\* the request as the response variable keeps it
ProjectRequest(op, project_id, resp) == [op |-> op, project_id |-> project_id, resp |-> resp]

\* POST /v1/projects
CreateProject ==
    \E body \in ProjectBodies, commit_ok \in BOOLEAN :
      \E project_id \in {Len(p_last) + 1} \cap (1 .. MaxProjects) :
        LET page == body.page
            layers == body.layers
            out == create_project(db_projects, storage_objects, project_id, page,
                                  layers, commit_ok)
        IN  /\ db_projects' = out.projects
            /\ storage_objects' = out.objects
            /\ a_resp' = ProjectRequest("create", project_id, out.resp)
            /\ p_last' = Remembered("create", project_id, page, layers, out.resp)
            /\ UNCHANGED projectShared

\* GET /v1/projects/{project_id}
GetProject ==
    \E project_id \in RequestedProjectIds :
        LET out == get_project(db_projects, storage_objects, project_id)
        IN  /\ db_projects' = out.projects
            /\ storage_objects' = out.objects
            /\ a_resp' = ProjectRequest("get", project_id, out.resp)
            /\ p_last' = Remembered("get", project_id, None, None, out.resp)
            /\ UNCHANGED projectShared

\* PUT /v1/projects/{project_id}
UpdateProject ==
    \E project_id \in RequestedProjectIds, body \in ProjectBodies,
       commit_ok \in BOOLEAN :
        LET page == body.page
            layers == body.layers
            out == update_project(db_projects, storage_objects, project_id, page,
                                  layers, commit_ok)
        IN  /\ db_projects' = out.projects
            /\ storage_objects' = out.objects
            /\ a_resp' = ProjectRequest("update", project_id, out.resp)
            /\ p_last' = Remembered("update", project_id, page, layers, out.resp)
            /\ UNCHANGED projectShared

\* DELETE /v1/projects/{project_id}
DeleteProject ==
    \E project_id \in RequestedProjectIds, commit_ok \in BOOLEAN :
        LET out == delete_project(db_projects, storage_objects, project_id, commit_ok)
        IN  /\ db_projects' = out.projects
            /\ storage_objects' = out.objects
            /\ a_resp' = ProjectRequest("delete", project_id, out.resp)
            /\ p_last' = Remembered("delete", project_id, None, None, out.resp)
            /\ UNCHANGED projectShared

\* POST /v1/projects/{project_id}/export/png
ExportProject ==
    \E project_id \in RequestedProjectIds, render_ok \in BOOLEAN, put_ok \in BOOLEAN :
      \E export_id \in {Cardinality(storage_objects) + 1} \cap (1 .. MaxAssets) :
        LET out == export_project_png(db_projects, storage_objects, project_id,
                                      render_ok, export_id, put_ok)
        IN  /\ db_projects' = out.projects
            /\ storage_objects' = out.objects
            /\ a_resp' = ProjectRequest("export", project_id, out.resp)
            /\ p_last' = Remembered("export", project_id, None, None, out.resp)
            /\ UNCHANGED projectShared

ProjectNext ==
    CreateProject \/ GetProject \/ UpdateProject \/ DeleteProject \/ ExportProject

ProjectSpec == ProjectInit /\ [][ProjectNext]_vars

\* ---- claims on the pages and assets handlers
StoredPageIds == {r.id : r \in db_pages}

\* C17: analyze and get_candidates on a page_id that is not stored respond
\* 404 with a detail that contains "not found"; the pages and candidates
\* tables stay as they were and the OCR provider is not called.
C17_UnknownPageIs404 ==
    [][ (/\ a_resp'.op \in {"analyze", "get_candidates"}
         /\ a_resp'.page_id \notin StoredPageIds)
        => /\ a_resp'.resp.status = 404
           /\ contains(a_resp'.resp.detail, "not found")
           /\ ~a_resp'.ocr_called
           /\ db_pages' = db_pages
           /\ db_candidates' = db_candidates ]_vars

\* both endpoints have answered 404 while pages and candidates are stored
C17_Witness ==
    /\ a_resp.op = "analyze"
    /\ a_resp.page_id \notin StoredPageIds
    /\ a_resp.resp.status = 404
    /\ db_pages # {} /\ db_candidates # {}

\* C18: analyze with provider "mock" on a stored page responds 200 with the
\* page's page_id, the width and height it was created with, and a
\* candidate list, whatever was created and analysed before.
C18_MockAnalyzeSucceeds ==
    (/\ a_resp.op = "analyze"
     /\ a_resp.provider = "mock"
     /\ a_resp.page_id \in StoredPageIds)
    => /\ a_resp.resp.status = 200
       /\ a_resp.resp.body.page_id = a_resp.page_id
       /\ a_resp.resp.body.width = page_query(db_pages, a_resp.page_id).width
       /\ a_resp.resp.body.height = page_query(db_pages, a_resp.page_id).height
       /\ a_resp.resp.body.candidates \in Seq({to_dict(r) : r \in db_candidates})

\* the elements of a list
Elements(seq) == {seq[i] : i \in DOMAIN seq}
StoredCandidates(page_id) == {r \in db_candidates : r.page_id = page_id}

\* C19: the candidates stored for a page are exactly those its most recent
\* successful analyze returned, and get_candidates returns them with 200;
\* the candidates of an earlier analysis of the page are gone and those of
\* the other pages are as their own last analysis left them.
C19_CandidatesOfLastAnalysis ==
    /\ \A p \in StoredPageIds :
          a_last[p].seen =>
              /\ {to_dict(r) : r \in StoredCandidates(p)} = Elements(a_last[p].candidates)
              /\ Cardinality(StoredCandidates(p)) = Len(a_last[p].candidates)
    /\ (/\ a_resp.op = "get_candidates"
        /\ a_resp.page_id \in StoredPageIds
        /\ a_last[a_resp.page_id].seen)
       => /\ a_resp.resp.status = 200
          /\ a_resp.resp.body.candidates = Elements(a_last[a_resp.page_id].candidates)

\* get_candidates has answered for a page whose second analysis replaced the
\* candidates of the first, while another page holds candidates too
C19_Witness ==
    /\ a_resp.op = "get_candidates"
    /\ a_resp.page_id \in StoredPageIds
    /\ a_last[a_resp.page_id].replaced
    /\ a_resp.resp.status = 200
    /\ a_resp.resp.body.candidates # {}
    /\ \E q \in StoredPageIds \ {a_resp.page_id} : StoredCandidates(q) # {}

\* C20: an upload whose content type is not image/png, image/jpeg or
\* image/jpg, or whose bytes are not readable as an image, is answered with
\* 400 (detail "File must be an image" when the type does not start with
\* "image/"), returns no asset_id and puts no object into the storage.
C20_RejectedUploads ==
    [][ (/\ a_resp'.op = "upload"
         /\ \/ a_resp'.content_type \notin AllowedTypes
            \/ ~a_resp'.contents.readable)
        => /\ a_resp'.resp.status = 400
           /\ ~startswith(a_resp'.content_type, "image/")
                 => a_resp'.resp.detail = "File must be an image"
           /\ a_resp'.resp.body = None
           /\ storage_objects' = storage_objects ]_vars

\* unreadable bytes under an allowed content type have been rejected after
\* an earlier upload was stored
C20_Witness ==
    /\ a_resp.op = "upload"
    /\ a_resp.content_type \in AllowedTypes
    /\ ~a_resp.contents.readable
    /\ a_resp.resp.status = 400
    /\ storage_objects # {}

\* ========================================================================
\* Further claims on generate_patch (Spec)
\* ========================================================================
\* the ROI has been cut out
ROITaken == roi # None /\ roi_mask # None

\* C21: the gradient fit is attempted only after the solid model was not
\* selected and with more than 100 background pixels (mask == 0) in the ROI;
\* with 100 or fewer background pixels the gradient model is never selected.
C21_GradientNeedsBackground ==
    ROITaken =>
        /\ Called("fit_linear_gradient")
              => /\ ~Called("generate_solid_fill")
                 /\ Len(bg_pixels) > MinBgRegionSize
        /\ Len(bg_pixels) <= MinBgRegionSize => bg_model # "gradient"

\* Steps 4 and 5 of generate_patch in mode auto (pipeline.py:102-141) as a
\* function of the ROI and its mask: the outcomes  bg_model, solid_color,
\* gradient_params  the steps can report ("error" when the reshape of the
\* background pixels raises).  solid_color is <<>> where none is reported.
BgOutcome(model, solid_color, gradient_params) ==
    [bg_model |-> model, solid_color |-> solid_color, gradient_params |-> gradient_params]

auto_bg_model(r, m) ==
    LET pixels == WhereUnmasked(r, m)
        solid  == is_solid_color(pixels)
        size   == IF Len(pixels) > 0 THEN 3 * Len(pixels) ELSE 0
    IN  IF reshape_raises(pixels) THEN {BgOutcome("error", <<>>, None)}
        ELSE IF solid.is_solid THEN {BgOutcome("solid", solid.mean_color, None)}
        ELSE IF size > MinBgRegionSize
        THEN {IF res.is_gradient THEN BgOutcome("gradient", <<>>, res.params)
                                 ELSE BgOutcome("inpaint", <<>>, None) :
                 res \in fit_linear_gradient(r)}
        ELSE {BgOutcome("inpaint", <<>>, None)}

\* what a finished call reports
ReportedOutcome ==
    BgOutcome(bg_model,
              IF "solid_color" \in DOMAIN debug_info THEN debug_info.solid_color ELSE <<>>,
              IF "gradient_params" \in DOMAIN debug_info THEN debug_info.gradient_params
              ELSE None)

\* the background model is chosen and no step has raised
ModelChosen == ROITaken /\ (pc = "compose" \/ Succeeded)

\* the steps of the call agree with auto_bg_model
AutoModelAgrees ==
    (ModelChosen /\ mode = "auto") => ReportedOutcome \in auto_bg_model(roi, roi_mask)

\* the colours the masked pixels of a second image take
MaskedColours == {<<0, 0, 0>>, <<255, 255, 255>>}
\* the ROI of an image that differs from this one on the masked pixels only
Repainted(r, m, c) == inpaint_telea(r, m, c)

\* C22: in mode auto the reported background model and its parameters are
\* those a call reports for any image that agrees with this one on every
\* pixel with mask == 0, on the same candidate and padding.
C22_ModelIgnoresMaskedPixels ==
    (ModelChosen /\ mode = "auto")
    => \A c \in MaskedColours :
          ReportedOutcome \in auto_bg_model(Repainted(roi, roi_mask, c), roi_mask)

\* C26: whenever generate_patch returns success = true, the returned bbox
\* lies inside the image with positive area and the encoded patch is
\* exactly w x h pixels, for every candidate bbox and every padding_px.
C26_SuccessBBoxInsideImage ==
    Succeeded =>
        /\ result.bbox.x >= 0 /\ result.bbox.y >= 0
        /\ result.bbox.w > 0 /\ result.bbox.h > 0
        /\ result.bbox.x + result.bbox.w <= image_bgr.w
        /\ result.bbox.y + result.bbox.h <= image_bgr.h
        /\ result.patch_bytes.w = result.bbox.w
        /\ result.patch_bytes.h = result.bbox.h

\* ========================================================================
\* Further claims on text_style.py (StyleSpec)
\* ========================================================================
\* C23: with debug = true, debug.font_size_method names the strategy that
\* produced fontSize: "pixel" only when the row projection of the mask was
\* measured, "adaptive" and "simple" with the value of that heuristic.
C23_DebugNamesStrategy ==
    (StyleReturned /\ t_in.debug)
    => LET named == t_out.style.debug.font_size_method
           bbox  == t_in.candidate.bbox
       IN  /\ named \in {"pixel", "adaptive", "simple"}
           /\ named = "pixel" => PixelFeasible(StyleMask, bbox)
           /\ named = "adaptive"
                 => t_out.style.fontSize =
                       estimate_font_size_adaptive(bbox, StyleText, StyleConfidence)
           /\ named = "simple" => t_out.style.fontSize = estimate_font_size(bbox)

\* ========================================================================
\* utils/export.py: export_project_to_png, one action per layer (ExportSpec)
\* ========================================================================
MaxLayers == 2     \* layer lists hold 0 .. MaxLayers layers

\* cv2.resize(patch, (w, h)): raises for an empty target size; the resampled
\* pixel is written as the nearest source pixel
resize_raises(w, h) == w <= 0 \/ h <= 0
resize(patch, w, h) ==
    Raster(h, w, LAMBDA y, x: patch.px[(y * patch.h) \div h][(x * patch.w) \div w])

\* blend_patch_layer after the download: patch_image comes from
\* cv2.imdecode(.., IMREAD_COLOR), so it has three channels and the alpha
\* added in line 66 is 255 everywhere: blended is the patch itself.
blend_patch_layer(base_image, bbox, patch_image) ==
    LET w == bbox.w
        h == bbox.h
        fits == patch_image.h = h /\ patch_image.w = w
        patch_rgb == IF fits THEN patch_image ELSE resize(patch_image, w, h)
        x == Max(0, Min(bbox.x, base_image.w - 1))
        y == Max(0, Min(bbox.y, base_image.h - 1))
        available_w == Min(w, base_image.w - x)
        available_h == Min(h, base_image.h - y)
    IN  IF ~fits /\ resize_raises(w, h) THEN [exc |-> "cv2.error", image |-> None]
        ELSE IF available_w <= 0 \/ available_h <= 0
        THEN [exc |-> "none", image |-> base_image]
        ELSE [exc |-> "none",
              image |-> Paste(base_image, y, y + available_h, x, x + available_w,
                              Crop(patch_rgb, 0, available_h, 0, available_w))]

\* render_text_layer: draw.text((x, y), ..) with (x, y) = quad[0].  The
\* glyphs PIL draws are not computed: the text is written as the pixel
\* (x, y) in the fill colour, where that pixel is inside the image.
render_text_layer(base_image, text_layer) ==
    LET x == text_layer.quad[1][1]
        y == text_layer.quad[1][2]
    IN  IF text_layer.text = <<>> \/ text_layer.quad = <<>> THEN base_image
        ELSE IF x \in 0..(base_image.w - 1) /\ y \in 0..(base_image.h - 1)
        THEN [base_image EXCEPT !.px[y][x] = text_layer.fill]
        ELSE base_image

\* ---- arguments
ExportW == 3
ExportH == 2
BaseColour == <<0, 0, 0>>
TextColour == <<30, 30, 30>>
\* the pixel (py, px) of a downloaded patch
PatchPixel(py, px) == <<100 + 10 * px, 100 + 10 * py, 200>>
PatchImage(h, w) == Raster(h, w, PatchPixel)
PatchBBoxes ==
    { BBox(0, 0, 2, 1), BBox(2, 1, 2, 1), BBox(3, 0, 1, 1), BBox(-1, 0, 2, 1),
      BBox(-2, -2, 1, 1), BBox(0, 2, 1, 1) }
PatchLayer(bbox, patch) == [kind |-> "patch", bbox |-> bbox, patch |-> patch]
TextLayer(text, quad) == [kind |-> "text", text |-> text, quad |-> quad, fill |-> TextColour]
\* patch |-> None: the download of the layer's image_url fails
ExportLayers ==
    {PatchLayer(b, PatchImage(b.h, b.w)) : b \in PatchBBoxes}
    \cup {PatchLayer(BBox(0, 0, 1, 1), None)}
    \cup {TextLayer(<<"A">>, Rect(0, 0, 1, 0)), TextLayer(<<"A">>, Rect(2, 1, 3, 1)),
          TextLayer(<<>>, Rect(0, 0, 1, 0))}
    \cup {[kind |-> "group"]}
LayerLists == UNION {[1..n -> ExportLayers] : n \in 0..MaxLayers}

ExportInit ==
    /\ PipelineIdle /\ GeomIdle /\ ComposeIdle /\ StyleIdle /\ ConcIdle
    /\ db_pages = {} /\ db_candidates = {} /\ storage_objects = {}
    /\ a_settings = None /\ a_resp = None /\ a_last = None
    /\ db_patches = {} /\ db_projects = {} /\ p_last = <<>>
    /\ e_pc = "start"
    /\ \E layers \in LayerLists, base_ok \in BOOLEAN :
          e_in = [layers |-> layers,
                  base |-> IF base_ok THEN Raster(ExportH, ExportW, LAMBDA y, x: BaseColour)
                           ELSE None]
    /\ e_i = 0
    /\ e_image = None
    /\ e_drawn = <<>>

exportShared == <<pipelineVars, geomVars, composeVars, styleVars, concVars,
                  db_pages, db_candidates, storage_objects, a_settings, a_resp, a_last,
                  tableVars>>

\* lines 219-226: download_image raises ValueError when the base image
\* cannot be fetched or decoded
ExportDownload ==
    /\ e_pc = "start"
    /\ IF e_in.base = None
       THEN /\ e_pc' = "raised"
            /\ UNCHANGED <<e_i, e_image>>
       ELSE /\ e_image' = e_in.base
            /\ e_i' = 1
            /\ e_pc' = "layers"
    /\ UNCHANGED <<e_in, e_drawn, exportShared>>

\* one pass of the loop of lines 228-241
ExportLayer ==
    /\ e_pc = "layers"
    /\ e_i <= Len(e_in.layers)
    /\ LET layer == e_in.layers[e_i]
       IN  IF layer.kind = "patch"
           THEN IF layer.patch = None
                THEN /\ e_pc' = "raised"
                     /\ UNCHANGED <<e_i, e_image, e_drawn>>
                ELSE LET out == blend_patch_layer(e_image, layer.bbox, layer.patch)
                     IN  IF out.exc # "none"
                         THEN /\ e_pc' = "raised"
                              /\ UNCHANGED <<e_i, e_image, e_drawn>>
                         ELSE /\ e_image' = out.image
                              /\ e_drawn' = Append(e_drawn, e_i)
                              /\ e_i' = e_i + 1
                              /\ UNCHANGED e_pc
           ELSE IF layer.kind = "text"
           THEN /\ e_image' = render_text_layer(e_image, layer)
                /\ e_drawn' = Append(e_drawn, e_i)
                /\ e_i' = e_i + 1
                /\ UNCHANGED e_pc
           ELSE /\ e_i' = e_i + 1
                /\ UNCHANGED <<e_pc, e_image, e_drawn>>
    /\ UNCHANGED <<e_in, exportShared>>

\* lines 243-249: cv2.imencode of the result
ExportEncode ==
    /\ e_pc = "layers"
    /\ e_i > Len(e_in.layers)
    /\ e_pc' = "done"
    /\ UNCHANGED <<e_in, e_i, e_image, e_drawn, exportShared>>

ExportNext == ExportDownload \/ ExportLayer \/ ExportEncode

ExportSpec == ExportInit /\ [][ExportNext]_vars

\* ---- claims on the export
\* C24: the patch layers are rendered before the text layers, in whatever
\* order the layer list holds them: no patch layer is drawn after a text
\* layer.
C24_PatchesBeforeTexts ==
    \A i, j \in 1..Len(e_drawn) :
        (i < j /\ e_in.layers[e_drawn[i]].kind = "text")
        => e_in.layers[e_drawn[j]].kind # "patch"

\* the pixels of the image inside the bbox
InsideBBox(image, bbox) ==
    {<<y, x>> \in (0..(image.h - 1)) \X (0..(image.w - 1)) :
        /\ x >= bbox.x /\ x < bbox.x + bbox.w
        /\ y >= bbox.y /\ y < bbox.y + bbox.h}

\* the loop has just blended the patch layer at index e_i
PatchStep ==
    /\ e_pc = "layers" /\ e_pc' = "layers"
    /\ e_i' = e_i + 1
    /\ e_in.layers[e_i].kind = "patch"

\* C27: blending a patch layer changes base-image pixels inside the
\* intersection of the layer's bbox with the image only, and writes there
\* the patch pixel that lies over the image pixel (a patch that starts at a
\* negative coordinate is cropped, not shifted); a bbox entirely outside the
\* image leaves every pixel as it was.
C27_BlendStaysInBBox ==
    [][ PatchStep =>
          LET bbox == e_in.layers[e_i].bbox
              patch == e_in.layers[e_i].patch
          IN  \A y \in 0..(e_image.h - 1), x \in 0..(e_image.w - 1) :
                 IF <<y, x>> \in InsideBBox(e_image, bbox)
                 THEN e_image'.px[y][x] = patch.px[y - bbox.y][x - bbox.x]
                 ELSE e_image'.px[y][x] = e_image.px[y][x] ]_vars

\* the images of the size of the given one
SameSizeImages == {StyleImage(pattern, t_in.image.h) : pattern \in {"flat", "split"}}

\* C28: for a fixed image size and candidate, the fontSize and fontWeight
\* returned by estimate_text_style are the same for every pixel content of
\* the image.
C28_SizeAndWeightIgnorePixels ==
    StyleReturned =>
        \A other \in SameSizeImages :
            \A o \in estimate_text_style(other, t_in.candidate, t_in.color_method,
                                         t_in.font_size_method, t_in.debug) :
                /\ o.exc = "none"
                /\ o.style.fontSize = t_out.style.fontSize
                /\ o.style.fontWeight = t_out.style.fontWeight

\* a call on the two-coloured image has measured the row projection of a
\* mask that fills its rectangle
C28_Witness ==
    /\ StyleReturned
    /\ t_in.image = StyleImage("split", t_in.image.h)
    /\ t_in.font_size_method = "pixel"
    /\ PixelFeasible(StyleMask, t_in.candidate.bbox)
    /\ t_out.style.fontWeight = 700
    /\ t_out.style.fontSize > MinFontSize

\* ---- further claims on analyze_page (ApiSpec)
\* the rows of the candidates table that belong to other pages
CandidatesOfOtherPages(candidates, page_id) ==
    {r \in candidates : r.page_id # page_id}

\* C29: an analyze call that fails responds with an error status and leaves
\* the candidates of every page as they were; the candidates table changes
\* only with a 200 response, and then the page's old rows are replaced by the
\* returned ones while the rows of the other pages stay.
C29_AnalyzeIsAtomic ==
    [][ a_resp'.op = "analyze" =>
          \/ /\ a_resp'.resp.status \in {400, 404, 500}
             /\ a_resp'.resp.body = None
             /\ db_candidates' = db_candidates
          \/ /\ a_resp'.resp.status = 200
             /\ {to_dict(r) : r \in {c \in db_candidates' : c.page_id = a_resp'.page_id}}
                    = Elements(a_resp'.resp.body.candidates)
             /\ CandidatesOfOtherPages(db_candidates', a_resp'.page_id)
                    = CandidatesOfOtherPages(db_candidates, a_resp'.page_id) ]_vars

\* an analyze call has failed on a candidate id that another page uses, on a
\* page that holds candidates of an earlier analysis
C29_Witness ==
    /\ a_resp.op = "analyze"
    /\ a_resp.page_id \in StoredPageIds
    /\ a_resp.ocr_called
    /\ a_resp.resp.status = 500
    /\ StoredCandidates(a_resp.page_id) # {}
    /\ \E q \in StoredPageIds \ {a_resp.page_id} : StoredCandidates(q) # {}

\* ---- claims on generate_patch_for_candidate (PatchSpec)
\* C30: the steps come in the order pipeline, upload, commit; a Patch row is
\* stored only after generate_patch returned success and the object was
\* uploaded; a missing page or a candidate that is not of the page gives 404,
\* a failed pipeline or upload gives 500, and in these cases no row is stored;
\* a stored row carries the pipeline's bbox and the uploaded object's name.
C30_PipelineUploadCommit ==
    [][ a_resp'.op = "patch" =>
          LET known == /\ page_query(db_pages, a_resp'.page_id) # None
                       /\ candidate_query(db_candidates, a_resp'.candidate_id,
                                          a_resp'.page_id) # None
              new   == db_patches' \ db_patches
          IN  /\ a_resp'.calls \in
                     {SubSeq(<<"get", "generate_patch", "put_object", "commit">>, 1, n) :
                          n \in 0 .. 4}
              /\ db_patches \subseteq db_patches'
              /\ ~known => a_resp'.resp.status = 404 /\ new = {}
              /\ (known /\ a_resp'.download = "ok"
                        /\ (~a_resp'.result.success \/ ~a_resp'.put_ok))
                    => a_resp'.resp.status = 500 /\ new = {}
              /\ a_resp'.resp.status # 200 => new = {}
              /\ \A row \in new :
                    /\ a_resp'.result.success
                    /\ a_resp'.put_ok
                    /\ a_resp'.calls = <<"get", "generate_patch", "put_object", "commit">>
                    /\ row.bbox = a_resp'.result.bbox
                    /\ row.page_id = a_resp'.page_id
                    /\ row.candidate_id = a_resp'.candidate_id
                    /\ row.image_url \in storage_objects' \ storage_objects
                    /\ row.image_url = PatchObject(row.id) ]_vars

\* a second Patch row has been stored, after a request whose upload failed
C30_Witness ==
    /\ a_resp.op = "patch"
    /\ a_resp.resp.status = 200
    /\ Cardinality(db_patches) = 2
    /\ \A row \in db_patches : row.image_url \in storage_objects
    /\ \E row \in db_patches : a_resp.resp.body.patch = patch_to_dict(row)

\* ---- claims on the project handlers (ProjectSpec)
\* the project ids that were created and not deleted since
AliveProjectIds == {i \in DOMAIN p_last : p_last[i].alive}

\* C25: the stored projects are those created and not deleted, each with the
\* page and layers of its last successful create or update, and get_project
\* returns them; get, update, delete and export on an id that was never
\* created or was deleted respond 404 and change no stored project.
C25_ProjectsFollowRequests ==
    [][ /\ {r.id : r \in db_projects'} = {i \in DOMAIN p_last' : p_last'[i].alive}
        /\ \A r \in db_projects' :
              /\ r.page_data = p_last'[r.id].page
              /\ r.layers = p_last'[r.id].layers
              /\ \A q \in db_projects' : q.id = r.id => q = r
        /\ (a_resp'.op \in {"get", "update", "delete", "export"}
                /\ a_resp'.project_id \notin AliveProjectIds)
              => /\ a_resp'.resp.status = 404
                 /\ db_projects' = db_projects
        /\ (a_resp'.op = "get" /\ a_resp'.project_id \in AliveProjectIds)
              => /\ a_resp'.resp.status = 200
                 /\ a_resp'.resp.body.project_id = a_resp'.project_id
                 /\ a_resp'.resp.body.page = p_last[a_resp'.project_id].page
                 /\ a_resp'.resp.body.layers = p_last[a_resp'.project_id].layers
        /\ a_resp'.op = "update"
              => {r.id : r \in db_projects'} = {r.id : r \in db_projects}
        /\ a_resp'.op = "delete"
              => /\ db_projects' \subseteq db_projects
                 /\ \A r \in db_projects \ db_projects' : r.id = a_resp'.project_id ]_vars

\* get_project has returned an updated project after another project was
\* deleted and asked for
C25_Witness ==
    /\ a_resp.op = "get"
    /\ a_resp.resp.status = 200
    /\ Len(p_last) = 2
    /\ \E i \in DOMAIN p_last : ~p_last[i].alive
    /\ a_resp.resp.body.layers # <<>>
    /\ a_resp.resp.body.page.page_id = 2
====
